---- MODULE Spec2Model ----
(***************************************************************************)
(* Instrumentation core of the agent mesh: AgentTelemetry.trace_operation, *)
(* the trace-context propagation used for Kafka headers, AgentLogger's     *)
(* operation timers and InstrumentedAgent.execute / consume_and_process /  *)
(* prepare_output_message, run by worker threads that share one agent.     *)
(***************************************************************************)
EXTENDS Integers, Sequences, FiniteSets, TLC

\* ------------------------------------------------------------------------
\* Bounds of the model
\* ------------------------------------------------------------------------
\* worker threads sharing the agent instance
Threads == {1, 2}

\* top-level operations (execute, consume_and_process, trace_production)
\* started over a run
MaxOps == 2

\* largest value the wall clock reaches
MaxClock == 1

\* ------------------------------------------------------------------------
\* Program constants
\* ------------------------------------------------------------------------
\* format(ctx.trace_id, "032x") / the traceparent trace-id field
TraceIdHexLen == 32

\* format(ctx.span_id, "016x") / the traceparent parent-id field
SpanIdHexLen == 16

\* AgentName.RISK.value
AgentNameValue == "agent-risk"

\* f"{self.agent_name.value}.execute"
ExecuteSpanName == "agent-risk.execute"

ValidateSpanName == "validate_input"

\* f"kafka.consume.{topic}" for topic "topic-x"
ConsumeSpanName == "kafka.consume.topic-x"

\* f"kafka.produce.{topic}" for topic "topic-y"
ProduceSpanName == "kafka.produce.topic-y"

OperationNames == {ExecuteSpanName, ValidateSpanName, ConsumeSpanName, ProduceSpanName}

\* the timer key execute passes to operation_start / operation_end
ExecuteTimer == "execute"

\* ------------------------------------------------------------------------
\* Optional values: <<>> is None, <<v>> is a present value
\* ------------------------------------------------------------------------
Nothing == <<>>

Some(v) == <<v>>

\* ------------------------------------------------------------------------
\* Exceptions.  str(e) is the message, except for KeyError whose str() is
\* the repr of the missing key.
\* ------------------------------------------------------------------------
NoExc == [type |-> "none", arg |-> ""]

ValidationError == [type |-> "ValueError", arg |-> "Input validation failed"]

ValidatorRaised == [type |-> "TypeError", arg |-> "bad input"]

CoreRaised == [type |-> "RuntimeError", arg |-> "core failed"]

TimerKeyError == [type |-> "KeyError", arg |-> ExecuteTimer]

Str(e) == IF e.type = "KeyError" THEN "'" \o e.arg \o "'" ELSE e.arg

\* isinstance(e, Exception): what "except Exception" catches
IsExceptionOnlyValueError(e) == e.type = "ValueError"

IsException(e) ==
    e.type \in {"ValueError", "TypeError", "RuntimeError", "KeyError", "OSError"}

\* what an external cancellation raises inside the running body: a
\* BaseException that is not an Exception (asyncio.CancelledError,
\* KeyboardInterrupt)
Cancelled == [type |-> "CancelledError", arg |-> ""]

\* trace_operation, "except Exception as e": the clause runs for e
ErrorRecorded(e) == e # NoExc /\ IsException(e)

\* ------------------------------------------------------------------------
\* W3C trace-context text format.  A traceparent header value is the
\* sequence of its "-"-separated fields, each a sequence of characters;
\* a character is its hex value 0..15, or 16 for any other character.
\* ------------------------------------------------------------------------
RECURSIVE HexDigits(_)
HexDigits(n) == IF n < 16 THEN <<n>> ELSE HexDigits(n \div 16) \o <<n % 16>>

RECURSIVE ZeroPad(_, _)
ZeroPad(s, w) == IF Len(s) >= w THEN s ELSE ZeroPad(<<0>> \o s, w)

\* format(n, "0<w>x")
FormatHex(n, w) == ZeroPad(HexDigits(n), w)

RECURSIVE ParseHex(_)
\* int(s, 16)
ParseHex(s) == IF s = <<>> THEN 0
               ELSE 16 * ParseHex(SubSeq(s, 1, Len(s) - 1)) + s[Len(s)]

IsHex(s, w) == Len(s) = w /\ \A i \in 1..Len(s) : s[i] \in 0..15

AllZero(s) == \A i \in 1..Len(s) : s[i] = 0

\* span contexts: (trace_id, span_id) with the is_remote mark
InvalidSpanContext == [trace_id |-> 0, span_id |-> 0, is_remote |-> FALSE]

IsValidSpanContext(c) == c.trace_id # 0 /\ c.span_id # 0

\* carriers (Kafka headers): the keys this program reads or writes
EmptyCarrier == [traceparent |-> Nothing, xapp |-> Nothing, other |-> Nothing]

\* bool(headers) of a dict
CarrierTruthy(h) == h.traceparent # Nothing \/ h.xapp # Nothing \/ h.other # Nothing

\* TraceContextTextMapPropagator.inject with the span context c current
PropagatorInjectSwapped(carrier, c) ==
    IF c.trace_id = 0 /\ c.span_id = 0 THEN carrier
    ELSE [carrier EXCEPT !.traceparent =
            Some(<< <<0, 0>>, FormatHex(c.span_id, TraceIdHexLen),
                    FormatHex(c.trace_id, SpanIdHexLen), <<0, 1>> >>)]

PropagatorInject(carrier, c) ==
    IF c.trace_id = 0 /\ c.span_id = 0 THEN carrier
    ELSE [carrier EXCEPT !.traceparent =
            Some(<< <<0, 0>>, FormatHex(c.trace_id, TraceIdHexLen),
                    FormatHex(c.span_id, SpanIdHexLen), <<0, 1>> >>)]

TraceparentWellFormed(h) ==
    /\ Len(h) >= 4
    /\ IsHex(h[1], 2)
    /\ IsHex(h[2], TraceIdHexLen)
    /\ IsHex(h[3], SpanIdHexLen)
    /\ IsHex(h[4], 2)

\* what a parsed traceparent stands for, or the invalid context
TraceparentAccepted(h) ==
    /\ TraceparentWellFormed(h)
    /\ ~AllZero(h[2])
    /\ ~AllZero(h[3])
    /\ ~(h[1] = <<0, 0>> /\ Len(h) > 4)
    /\ h[1] # <<15, 15>>

\* TraceContextTextMapPropagator.extract: the span context held by the
\* returned Context (InvalidSpanContext for the empty Context)
PropagatorExtractLenient(carrier) ==
    IF carrier.traceparent = Nothing THEN InvalidSpanContext
    ELSE LET h == carrier.traceparent[1] IN
         IF Len(h) < 4 THEN InvalidSpanContext
         ELSE [trace_id |-> ParseHex(h[2]), span_id |-> ParseHex(h[3]),
               is_remote |-> TRUE]

PropagatorExtract(carrier) ==
    IF carrier.traceparent = Nothing THEN InvalidSpanContext
    ELSE LET h == carrier.traceparent[1] IN
         IF ~TraceparentAccepted(h) THEN InvalidSpanContext
         ELSE [trace_id |-> ParseHex(h[2]), span_id |-> ParseHex(h[3]),
               is_remote |-> TRUE]

\* ------------------------------------------------------------------------
\* Inputs
\* ------------------------------------------------------------------------
\* the trace identity an upstream producer put on the wire
RemoteParent == [trace_id |-> 161, span_id |-> 178, is_remote |-> TRUE]

ValidTraceparent ==
    << <<0, 0>>, FormatHex(RemoteParent.trace_id, TraceIdHexLen),
       FormatHex(RemoteParent.span_id, SpanIdHexLen), <<0, 1>> >>

\* malformed traceparent values: a short trace-id field, a character
\* outside [0-9a-f], an all-zero trace id, an all-zero parent id, the
\* forbidden version ff, version 00 with a trailing field
MalformedTraceparents ==
    { << <<0, 0>>, <<10, 1>>, ValidTraceparent[3], <<0, 1>> >>,
      << <<0, 0>>, [ValidTraceparent[2] EXCEPT ![1] = 16], ValidTraceparent[3], <<0, 1>> >>,
      << <<0, 0>>, FormatHex(0, TraceIdHexLen), ValidTraceparent[3], <<0, 1>> >>,
      << <<0, 0>>, ValidTraceparent[2], FormatHex(0, SpanIdHexLen), <<0, 1>> >>,
      << <<15, 15>>, ValidTraceparent[2], ValidTraceparent[3], <<0, 1>> >>,
      << <<0, 0>>, ValidTraceparent[2], ValidTraceparent[3], <<0, 1>>, <<7>> >>,
      << <<0, 0>>, ValidTraceparent[2] >> }

ValidCarrier == [EmptyCarrier EXCEPT !.traceparent = Some(ValidTraceparent)]

MalformedCarriers ==
    { [EmptyCarrier EXCEPT !.traceparent = Some(h)] : h \in MalformedTraceparents }

\* message_headers of consume_and_process: None, {}, a valid carrier, a
\* malformed one, one without a traceparent entry
InboundHeaders ==
    {Nothing, Some(EmptyCarrier), Some(ValidCarrier),
     Some([EmptyCarrier EXCEPT !.other = Some("v")])}
    \cup { Some(c) : c \in MalformedCarriers }

\* the headers the concurrent workers receive
WorkerHeaders == {Nothing, Some(ValidCarrier)}

\* message bodies: the keys execute and consume_and_process read
Messages ==
    { [application_id |-> Some("A1"), request_id |-> Some("R1")],
      [application_id |-> Nothing, request_id |-> Nothing] }

\* the application each concurrent worker handles
WorkerApplicationIds == <<"A1", "A2">>

\* the message bodies the concurrent workers receive
WorkerMessages ==
    { [application_id |-> Some(WorkerApplicationIds[t]), request_id |-> Some("R1")] :
        t \in Threads }

\* the message bodies worker t receives
MessagesOf(t) ==
    { m \in WorkerMessages : m.application_id = Some(WorkerApplicationIds[t]) }

\* dict.get(key, default)
Get(field, default) == IF field = Nothing THEN default ELSE field[1]

\* AgentContext
NoContext == [application_id |-> "", request_id |-> "",
              trace_headers |-> EmptyCarrier, metadata |-> "{}"]

\* a context the caller of execute passes in
CallerContexts ==
    { [application_id |-> "", request_id |-> "R2",
       trace_headers |-> EmptyCarrier, metadata |-> "{}"] }

\* the context argument of execute: None or a context
ContextArguments == {Nothing} \cup { Some(c) : c \in CallerContexts }

\* InstrumentedAgent._create_context
CreateContext(input_data) ==
    [application_id |-> Get(input_data.application_id, "app-<time>"),
     request_id |-> Get(input_data.request_id, "req-<time>"),
     trace_headers |-> EmptyCarrier,
     metadata |-> "{}"]

\* the AgentContext consume_and_process builds
ConsumeContext(message_value, message_headers) ==
    [application_id |-> Get(message_value.application_id, "unknown"),
     request_id |-> Get(message_value.request_id, "req-<time>"),
     trace_headers |-> IF message_headers # Nothing /\ CarrierTruthy(message_headers[1])
                       THEN message_headers[1] ELSE EmptyCarrier,
     metadata |-> "{}"]

\* what _execute_core may return: an object with __dict__, or a plain value
Payloads ==
    { [id |-> "evaluation", has_dict |-> TRUE, model_dump |-> "none",
       fields |-> {"risk_score", "risk_category"}],
      [id |-> "plain", has_dict |-> FALSE, model_dump |-> "none", fields |-> {}] }

\* a result without __dict__ that has a model_dump method which returns
\* its fields
DumpablePayload ==
    [id |-> "slots_model", has_dict |-> FALSE, model_dump |-> "returns",
     fields |-> {"decision"}]

\* a result without __dict__ that has a model_dump method which raises
UnserializablePayload ==
    [id |-> "unserializable", has_dict |-> FALSE, model_dump |-> "raises", fields |-> {}]

\* lines 359-362: hasattr(result, "__dict__") is false and
\* result.model_dump() raises
SerializeRaises(p) == ~p.has_dict /\ p.model_dump = "raises"

\* what model_dump() raises
SerializeError == [type |-> "TypeError", arg |-> "model_dump failed"]

\* InstrumentedAgent._serialize_result
SerializeResultAlwaysWraps(p) == [keys |-> {"value"}, of |-> p.id]

SerializeResult(p) ==
    IF p.has_dict THEN [keys |-> p.fields, of |-> p.id]
    ELSE IF p.model_dump # "none" THEN [keys |-> p.fields, of |-> p.id]
    ELSE [keys |-> {"value"}, of |-> p.id]

\* AgentResult(success=True, data=..., latency_ms=...)
SuccessResult(p, latency) ==
    [success |-> TRUE, data |-> Some(SerializeResult(p)), error |-> Nothing,
     latency_ms |-> latency]

\* AgentResult(success=False, error=str(e), latency_ms=...)
FailureResultKeepsData(e, p, latency) ==
    [success |-> FALSE,
     data |-> IF p = Nothing THEN Nothing ELSE Some(SerializeResult(p[1])),
     error |-> Some(Str(e)), latency_ms |-> latency]

FailureResult(e, p, latency) ==
    [success |-> FALSE, data |-> Nothing, error |-> Some(Str(e)),
     latency_ms |-> latency]

\* (time.time() - start_time) * 1000
LatencyMs(now, start) == (now - start) * 1000

\* ------------------------------------------------------------------------
\* tests/simulation: the random module and DatasetGenerator
\* ------------------------------------------------------------------------
\* number of states of the generator behind the random module
RngModulus == 16

\* largest n passed to generate_dataset / largest n_requests
MaxN == 2

\* runs made on one SimulationEngine
MaxRuns == 2

\* seeds passed to DatasetGenerator (42 is the seed of the tests)
Seeds == {7, 42}

\* values of uuid.uuid4().hex[:8].upper(); uuid4 reads os.urandom, which
\* random.seed does not govern
UuidValues == {"0A1B2C3D", "4E5F6A7B"}

\* random.seed(seed)
RandomSeed(seed) == seed % RngModulus

\* the state of the random module after one draw
RandomAdvance(state) == (state * 5 + 1) % RngModulus

RECURSIVE RandomAdvanceBy(_, _)
RandomAdvanceBy(state, draws) ==
    IF draws = 0 THEN state
    ELSE RandomAdvanceBy(RandomAdvance(state), draws - 1)

\* random.choice(seq)
RandomChoice(state, seq) == seq[(state % Len(seq)) + 1]

\* random.uniform(a, b), in thousands
RandomUniform(state, a, b) == IF b <= a THEN a ELSE a + (state % (b - a + 1))

\* list(RiskProfile)
RiskProfiles == <<"very_low", "low", "medium", "high", "critical", "edge_case">>

\* DatasetGenerator.DEFAULT_DISTRIBUTION, in percent, in the order of the dict
DefaultDistribution ==
    <<[profile |-> "very_low", ratio |-> 15], [profile |-> "low", ratio |-> 25],
      [profile |-> "medium", ratio |-> 30], [profile |-> "high", ratio |-> 15],
      [profile |-> "critical", ratio |-> 10], [profile |-> "edge_case", ratio |-> 5]>>

\* the _generate_<profile>_risk methods: the bounds of income and amount (in
\* thousands; amount_factor 0 stands for the fixed upper bound amount_hi), the
\* draws each makes from the random module and the expectation it attaches
RiskGenerators ==
    [very_low |-> [income_lo |-> 8, income_hi |-> 15, amount_lo |-> 5,
                   amount_factor |-> 3, amount_hi |-> 0, draws |-> 5,
                   expected_outcome |-> "APPROVED",
                   expected_score_range |-> <<0, 20>>],
     low |-> [income_lo |-> 5, income_hi |-> 10, amount_lo |-> 10,
              amount_factor |-> 5, amount_hi |-> 0, draws |-> 6,
              expected_outcome |-> "APPROVED",
              expected_score_range |-> <<15, 35>>],
     medium |-> [income_lo |-> 3, income_hi |-> 7, amount_lo |-> 20,
                 amount_factor |-> 7, amount_hi |-> 0, draws |-> 6,
                 expected_outcome |-> "MANUAL_REVIEW",
                 expected_score_range |-> <<35, 60>>],
     high |-> [income_lo |-> 2, income_hi |-> 5, amount_lo |-> 30,
               amount_factor |-> 10, amount_hi |-> 0, draws |-> 6,
               expected_outcome |-> "MANUAL_REVIEW",
               expected_score_range |-> <<55, 80>>],
     critical |-> [income_lo |-> 1, income_hi |-> 3, amount_lo |-> 50,
                   amount_factor |-> 0, amount_hi |-> 150, draws |-> 6,
                   expected_outcome |-> "REJECTED",
                   expected_score_range |-> <<75, 100>>]]

\* the edge_cases list of _generate_edge_case
EdgeCases ==
    <<[amount |-> 100, outcome |-> "MANUAL_REVIEW"],
      [amount |-> 50, outcome |-> "MANUAL_REVIEW"],
      [amount |-> 15, outcome |-> "APPROVED"],
      [amount |-> 5, outcome |-> "REJECTED"],
      [amount |-> 75, outcome |-> "MANUAL_REVIEW"]>>

\* DatasetGenerator._generate_id(prefix), given the value uuid4 returned
GenerateId(prefix, uuid) == <<prefix, uuid>>

\* DatasetGenerator._generate_edge_case(): one choice among the cases, one
\* randint for the credit score
GenerateEdgeCase(state, uuid) ==
    LET case == RandomChoice(state, EdgeCases)
    IN  [app |-> [application_id |-> GenerateId("EDGE", uuid),
                  amount_requested |-> case.amount,
                  risk_profile |-> "edge_case",
                  expected_outcome |-> case.outcome,
                  expected_score_range |-> <<15, 85>>],
         state |-> RandomAdvanceBy(state, 2)]

\* DatasetGenerator._generate_<profile>_risk(): income, then amount, then the
\* remaining draws
GenerateRisk(state, profile, uuid) ==
    LET g == RiskGenerators[profile]
        income == RandomUniform(state, g.income_lo, g.income_hi)
        upper == IF g.amount_factor = 0 THEN g.amount_hi
                 ELSE income * g.amount_factor
        amount == RandomUniform(RandomAdvance(state), g.amount_lo, upper)
    IN  [app |-> [application_id |-> GenerateId("APP", uuid),
                  amount_requested |-> amount,
                  risk_profile |-> profile,
                  expected_outcome |-> g.expected_outcome,
                  expected_score_range |-> g.expected_score_range],
         state |-> RandomAdvanceBy(state, g.draws)]

\* DatasetGenerator.generate_one(profile)
GenerateOne(state, profile, uuid) ==
    IF profile = "edge_case" THEN GenerateEdgeCase(state, uuid)
    ELSE GenerateRisk(state, profile, uuid)

\* generate_dataset: "for _ in range(count): dataset.append(generate_one(profile))"
RECURSIVE GenerateCount(_, _, _, _, _)
GenerateCount(dataset, state, profile, count, uuids) ==
    IF count <= 0 THEN [dataset |-> dataset, state |-> state]
    ELSE LET one == GenerateOne(state, profile, uuids[Len(dataset) + 1])
         IN  GenerateCount(Append(dataset, one.app), one.state, profile,
                           count - 1, uuids)

\* generate_dataset: "for profile, ratio in distribution.items()", with
\* count = int(n * ratio)
RECURSIVE GenerateDistribution(_, _, _, _, _)
GenerateDistribution(dataset, state, distribution, n, uuids) ==
    IF distribution = <<>> THEN [dataset |-> dataset, state |-> state]
    ELSE LET head == Head(distribution)
             part == GenerateCount(dataset, state, head.profile,
                                   (n * head.ratio) \div 100, uuids)
         IN  GenerateDistribution(part.dataset, part.state, Tail(distribution),
                                  n, uuids)

\* generate_dataset: "while len(dataset) < n", the profile drawn by random.choice
RECURSIVE GenerateRemaining(_, _, _, _)
GenerateRemaining(dataset, state, n, uuids) ==
    IF Len(dataset) >= n THEN [dataset |-> dataset, state |-> state]
    ELSE LET profile == RandomChoice(state, RiskProfiles)
             one == GenerateOne(RandomAdvance(state), profile,
                                uuids[Len(dataset) + 1])
         IN  GenerateRemaining(Append(dataset, one.app), one.state, n, uuids)

\* random.shuffle(x): for i from the last index down to the second, swap
\* x[i] with x[j], j drawn below i + 1
RECURSIVE RandomShuffle(_, _, _)
RandomShuffle(x, state, i) ==
    IF i < 2 THEN [dataset |-> x, state |-> state]
    ELSE LET j == (state % i) + 1
             swapped == [x EXCEPT ![i] = x[j], ![j] = x[i]]
         IN  RandomShuffle(swapped, RandomAdvance(state), i - 1)

\* DatasetGenerator.generate_dataset(n), from the state of the random module
\* and the values uuid4 returns: the dataset and the state left behind
GenerateDatasetFrom(state, n, uuids) ==
    LET byRatio == GenerateDistribution(<<>>, state, DefaultDistribution, n, uuids)
        filled == GenerateRemaining(byRatio.dataset, byRatio.state, n, uuids)
        shuffled == RandomShuffle(filled.dataset, filled.state,
                                  Len(filled.dataset))
    IN  [dataset |-> SubSeq(shuffled.dataset, 1, n), state |-> shuffled.state]

\* a DatasetGenerator before its construction
NoGenerator == [seed |-> Nothing, counter |-> 0, constructed |-> FALSE,
                n |-> 0, dataset |-> Nothing]

\* the DatasetGenerator instances of a test
Generators == {1, 2}

NoGenerators == [g \in Generators |-> NoGenerator]

\* ------------------------------------------------------------------------
\* tests/simulation: SimulationEngine
\* ------------------------------------------------------------------------
\* _check_coherence: tolerance = 15
Tolerance == 15

\* what SimulatedAgentPipeline.process gives for one request: the mock's or
\* the API's successful response, an unsuccessful response, an exception
PipelineOutcomes ==
    {[kind |-> "response", success |-> TRUE, risk_score |-> 10,
      decision |-> "APPROVED"],
     [kind |-> "response", success |-> TRUE, risk_score |-> 90,
      decision |-> "REJECTED"],
     [kind |-> "response", success |-> FALSE, risk_score |-> 0,
      decision |-> ""],
     [kind |-> "raise", success |-> FALSE, risk_score |-> 0, decision |-> ""]}

\* SimulationEngine._check_coherence(app, result)
CheckCoherence(app, actual_outcome, actual_score) ==
    LET min_score == app.expected_score_range[1]
        max_score == app.expected_score_range[2]
        score_ok == /\ min_score - Tolerance <= actual_score
                    /\ actual_score <= max_score + Tolerance
        outcome_ok ==
            CASE app.expected_outcome = "APPROVED" ->
                     actual_outcome \in {"APPROVED", "MANUAL_REVIEW"}
              [] app.expected_outcome = "REJECTED" ->
                     actual_outcome \in {"REJECTED", "MANUAL_REVIEW"}
              [] OTHER -> TRUE
    IN  score_ok /\ outcome_ok

\* SimulationEngine._process_one(app), given what the pipeline did
ProcessOneResult(app, outcome) ==
    IF outcome.kind = "response" /\ outcome.success
    THEN [application_id |-> app.application_id, success |-> TRUE,
          actual_outcome |-> Some(outcome.decision),
          actual_score |-> Some(outcome.risk_score),
          coherent |-> CheckCoherence(app, outcome.decision, outcome.risk_score),
          error |-> Nothing]
    ELSE [application_id |-> app.application_id, success |-> FALSE,
          actual_outcome |-> Nothing, actual_score |-> Nothing,
          coherent |-> FALSE,
          error |-> Some(IF outcome.kind = "raise" THEN "exception"
                         ELSE "Unknown error")]

IsSuccessful(r) == r.success

IsFailed(r) == ~r.success

\* SimulationEngine._generate_report(duration), its counts
GenerateReport(results) ==
    LET successful == SelectSeq(results, IsSuccessful)
        failed == SelectSeq(results, IsFailed)
    IN  [total_requests |-> Len(results),
         successful_requests |-> Len(successful),
         failed_requests |-> Len(failed)]

\* no SimulationEngine constructed
NoEngine ==
    [constructed |-> FALSE, n_requests |-> 0, seed |-> 0, dry_run |-> FALSE,
     results |-> <<>>, dataset |-> <<>>, i |-> 0, pc |-> "idle", runs |-> 0,
     report |-> Nothing]

\* ------------------------------------------------------------------------
\* State
\* ------------------------------------------------------------------------
VARIABLES
    active_operations,   \* net sum of the amounts added to the up-down counter
    error_counter,       \* agent.errors, by "operation" tag
    latency_histogram,   \* number of samples of agent.operation.duration, by operation
    request_counter,     \* agent.requests, by "success" tag
    operation_starts,    \* AgentLogger._operation_starts
    clock,               \* time.time()
    ops,                 \* top-level operations started
    spans,               \* per thread: the spans of its open scopes and of its last call
    ctx,                 \* per thread: the stack of current spans (indexes into spans)
    pc,                  \* per thread: position in the code
    call,                \* per thread: the call it is making or made last
    exc,                 \* per thread: the exception in flight
    result,              \* per thread: the AgentResult of its call
    out,                 \* output of the propagation call made last
    telemetry,           \* the class attribute AgentTelemetry._instance and the objects created
    added,               \* per thread: the sums of the amounts it added to the gauge and the counters
    random_state,        \* the state of the random module, shared by every DatasetGenerator
    generators,          \* the DatasetGenerator instances: seed, _counter and the dataset generated last
    engine,              \* the SimulationEngine: its config, self.results and the position of run()
    loggers,             \* structlog's global configuration and the AgentLogger objects constructed
    token_counter,       \* agent.llm.tokens, by model and type
    llm_call             \* per thread: the arguments of its record_llm_call in progress

vars == <<active_operations, error_counter, latency_histogram, request_counter,
          operation_starts, clock, ops, spans, ctx, pc, call, exc, result, out,
          telemetry,
          added,
          random_state,
          generators,
          engine,
          loggers,
          token_counter,
          llm_call>>

metrics == <<active_operations, error_counter, latency_histogram, request_counter>>

NoCall ==
    [op |-> "none", status |-> "none",
     input_data |-> [application_id |-> Nothing, request_id |-> Nothing],
     headers |-> Nothing, context |-> NoContext, start_time |-> 0, outer |-> 0,
     validator |-> "none", core |-> "none", payload |-> Nothing,
     failure |-> NoExc, raised |-> NoExc, validator_calls |-> 0, core_calls |-> 0,
     error_adds |-> 0, request_adds |-> 0, duration_ms |-> Nothing,
     timer |-> ExecuteTimer, sink |-> "ok"]

\* an event dict handed to the structlog processors
NoRecord ==
    [level |-> "", event |-> "", application_id |-> "", duration_ms |-> Nothing,
     trace_id |-> Nothing, span_id |-> Nothing, agent |-> ""]

NoOut == [kind |-> "none", by |-> 0, headers |-> EmptyCarrier, value |-> Nothing,
          context |-> InvalidSpanContext, current |-> InvalidSpanContext,
          instance |-> 0, error |-> NoExc, record |-> NoRecord, logger |-> 0]

\* the values of the "model" attribute
Models == {"model-a", "model-b"}

\* the values of the "type" attribute
TokenTypes == {"total", "input", "output"}

\* agent.llm.tokens as _create_metrics leaves it: nothing recorded
NoTokens == [m \in Models |-> [type \in TokenTypes |-> 0]]

\* no record_llm_call in progress
NoLlmCall == [model |-> "", input_tokens |-> 0, output_tokens |-> 0]

NoLlmCalls == [t \in Threads |-> NoLlmCall]

\* structlog as imported: no processor chain configured, no AgentLogger
\* constructed
NoLoggers == [configured |-> "", names |-> <<>>, bound |-> <<>>]

\* nothing added to any instrument yet
NothingAdded ==
    [t \in Threads |->
       [active_operations |-> 0,
        error_counter |-> [n \in OperationNames |-> 0],
        request_counter |-> [b \in BOOLEAN |-> 0]]]

\* an AgentTelemetry object as object.__new__ leaves it: _initialized is
\* read from the class attribute, nothing else is set
NewObject ==
    [initialized |-> FALSE, agent_name |-> "", config |-> "", tracer |-> 0,
     instruments |-> 0, propagator |-> FALSE]

\* the arguments and the self of an initialize call in progress
NoFrame == [agent_name |-> "", config |-> Nothing, self |-> 0]

\* the class as the module defines it: _instance is None (0)
FreshTelemetry ==
    [instance |-> 0, objects |-> <<>>, providers |-> 0,
     frame |-> [t \in Threads |-> NoFrame]]

\* the class after InstrumentedAgent.__init__ called
\* AgentTelemetry.initialize(agent_name, None)
InitializedTelemetry ==
    [FreshTelemetry EXCEPT
       !.instance = 1,
       !.objects = << [NewObject EXCEPT !.initialized = TRUE,
                                        !.agent_name = AgentNameValue,
                                        !.config = "from_env", !.tracer = 1,
                                        !.instruments = 1, !.propagator = TRUE] >>,
       !.providers = 1]

Init ==
    /\ active_operations = 0
    /\ error_counter = [n \in OperationNames |-> 0]
    /\ latency_histogram = [n \in OperationNames |-> 0]
    /\ request_counter = [b \in BOOLEAN |-> 0]
    /\ operation_starts = [n \in {ExecuteTimer} |-> Nothing]
    /\ clock = 0
    /\ ops = 0
    /\ spans = [t \in Threads |-> <<>>]
    /\ ctx = [t \in Threads |-> <<>>]
    /\ telemetry = InitializedTelemetry
    /\ added = NothingAdded
    /\ random_state = 0
    /\ generators = NoGenerators
    /\ engine = NoEngine
    /\ loggers = NoLoggers
    /\ token_counter = NoTokens
    /\ llm_call = NoLlmCalls
    /\ pc = [t \in Threads |-> "idle"]
    /\ call = [t \in Threads |-> NoCall]
    /\ exc = [t \in Threads |-> NoExc]
    /\ result = [t \in Threads |-> Nothing]
    /\ out = NoOut

\* trace.get_current_span() of thread t: an index into spans[t], 0 for the
\* invalid span
CurrentSpanOutermost(t) == IF ctx[t] = <<>> THEN 0 ELSE ctx[t][1]

CurrentSpan(t) == IF ctx[t] = <<>> THEN 0 ELSE ctx[t][Len(ctx[t])]

SpanContextOf(t, i) ==
    IF i = 0 THEN InvalidSpanContext
    ELSE [trace_id |-> spans[t][i].trace_id, span_id |-> spans[t][i].span_id,
          is_remote |-> FALSE]

CurrentSpanContext(t) == SpanContextOf(t, CurrentSpan(t))

\* add_trace_context: trace_id and span_id of the current span of the
\* calling thread, when that span is recording
AddTraceContextShared(t, event_dict) ==
    LET u == CHOOSE v \in Threads : \A w \in Threads : v <= w IN
    IF CurrentSpan(u) # 0
    THEN [event_dict EXCEPT
            !.trace_id = Some(FormatHex(CurrentSpanContext(u).trace_id, TraceIdHexLen)),
            !.span_id = Some(FormatHex(CurrentSpanContext(u).span_id, SpanIdHexLen))]
    ELSE event_dict

AddTraceContext(t, event_dict) ==
    IF CurrentSpan(t) # 0
    THEN [event_dict EXCEPT
            !.trace_id = Some(FormatHex(CurrentSpanContext(t).trace_id, TraceIdHexLen)),
            !.span_id = Some(FormatHex(CurrentSpanContext(t).span_id, SpanIdHexLen))]
    ELSE event_dict

\* the processor add_agent_context(agent_name) builds
AddAgentContext(event_dict) == [event_dict EXCEPT !.agent = AgentNameValue]

\* the record a level method of the agent's logger emits from thread t
LogRecord(t, level, event, application_id, duration_ms) ==
    AddAgentContext(AddTraceContext(t,
        [NoRecord EXCEPT !.level = level, !.event = event,
                         !.application_id = application_id,
                         !.duration_ms = duration_ms]))

\* the output of a call that logged a record
Logged(t, record) == [NoOut EXCEPT !.kind = "log", !.by = t, !.record = record]

\* identifiers the id generator hands out: distinct for distinct live spans
SpanId(t, i) == 16 * t + i

RootTraceId(span_id) == 256 + span_id

\* ------------------------------------------------------------------------
\* AgentTelemetry.trace_operation
\* ------------------------------------------------------------------------
\* the parent start_as_current_span gives a span: the context argument when
\* one is passed, the calling thread's current span otherwise
ParentContextIgnoresArgument(t, context) == CurrentSpanContext(t)

ParentContext(t, context) ==
    IF context = Nothing THEN CurrentSpanContext(t) ELSE context[1]

NewSpan(t, i, name, kind, context) ==
    LET parent == ParentContext(t, context)
        root == ~IsValidSpanContext(parent)
    IN [name |-> name, kind |-> kind,
        span_id |-> SpanId(t, i),
        trace_id |-> IF root THEN RootTraceId(SpanId(t, i)) ELSE parent.trace_id,
        parent_id |-> IF root THEN 0 ELSE parent.span_id,
        status |-> "unset", description |-> "", ended |-> FALSE]

\* Counter.add / UpDownCounter.add: the instrument takes the amount into
\* its sum in one step
CounterAddOverwrites(value, amount) == amount

CounterAdd(value, amount) == value + amount

\* entry of the scope up to the yield: gauge +1, span started and made
\* current.  kept: the spans of thread t still looked at.
TraceEnter(t, kept, name, kind, context) ==
    /\ active_operations' = CounterAdd(active_operations, 1)
    /\ added' = [added EXCEPT ![t].active_operations = @ + 1]
    /\ spans' = [spans EXCEPT ![t] =
                   Append(kept, NewSpan(t, Len(kept) + 1, name, kind, context))]
    /\ ctx' = [ctx EXCEPT ![t] = Append(@, Len(kept) + 1)]

\* the spans of the scopes thread t has open
OpenSpans(t) == SubSeq(spans[t], 1, Len(ctx[t]))

\* the span as the scope leaves it when e left the body (NoExc: normal exit)
ClosedSpanAlwaysOk(sp, e) ==
    [sp EXCEPT !.status = "ok", !.description = "", !.ended = TRUE]

ClosedSpan(sp, e) ==
    [sp EXCEPT !.status = IF e = NoExc THEN "ok" ELSE "error",
               !.description = IF e = NoExc THEN "" ELSE Str(e),
               !.ended = TRUE]

\* the span as start_as_current_span leaves it: as the scope set it when its
\* try/except ran; for an exception the except clause does not catch, the
\* status is what the library does on the way out, which marks the span as
\* failed in some releases and leaves the status alone in others
ExitSpans(sp, e) ==
    IF e = NoExc \/ IsException(e) THEN {ClosedSpan(sp, e)}
    ELSE {[sp EXCEPT !.ended = TRUE], ClosedSpan(sp, e)}

\* the amount the finally clause adds to the gauge
GaugeReleaseOnSuccessOnly(e) == IF e = NoExc THEN -1 ELSE 0

GaugeReleaseUnlessCancelled(e) == IF e = NoExc \/ IsException(e) THEN -1 ELSE 0

GaugeRelease(e) == -1

\* exit of the scope from the yield on: status, error counter, histogram,
\* gauge -1, span ended and the previous current span restored
TraceExit(t, e) ==
    LET s == CurrentSpan(t) IN
    /\ \E sp \in ExitSpans(spans[t][s], e) :
          spans' = [spans EXCEPT ![t][s] = sp]
    /\ error_counter' = IF ErrorRecorded(e)
                        THEN [error_counter EXCEPT ![spans[t][s].name] = CounterAdd(@, 1)]
                        ELSE error_counter
    /\ latency_histogram' = [latency_histogram EXCEPT ![spans[t][s].name] = @ + 1]
    /\ active_operations' = CounterAdd(active_operations, GaugeRelease(e))
    /\ added' = [added EXCEPT
                   ![t].active_operations = @ + GaugeRelease(e),
                   ![t].error_counter[spans[t][s].name] =
                       IF ErrorRecorded(e) THEN @ + 1 ELSE @]
    /\ ctx' = [ctx EXCEPT ![t] = SubSeq(@, 1, Len(@) - 1)]

\* ------------------------------------------------------------------------
\* InstrumentedAgent.execute
\* ------------------------------------------------------------------------
NewCall(op, input_data, headers, context, outer) ==
    [NoCall EXCEPT !.op = op, !.status = "running", !.input_data = input_data,
                   !.headers = headers, !.context = context, !.outer = outer]

\* lines 157-170: context, start_time, the <agent>.execute scope entered
StartExecute(t, inputs, contexts) ==
    /\ pc[t] = "idle"
    /\ ops < MaxOps
    /\ \E input_data \in inputs, context \in contexts :
         call' = [call EXCEPT ![t] =
                    [NewCall("execute", input_data, Nothing,
                             IF context = Nothing THEN CreateContext(input_data)
                             ELSE context[1],
                             CurrentSpan(t))
                     EXCEPT !.start_time = clock]]
    /\ TraceEnter(t, OpenSpans(t), ExecuteSpanName, "INTERNAL", Nothing)
    /\ ops' = ops + 1
    /\ pc' = [pc EXCEPT ![t] = "operation_start"]
    /\ result' = [result EXCEPT ![t] = Nothing]
    /\ out' = NoOut
    /\ exc' = [exc EXCEPT ![t] = NoExc]
    /\ UNCHANGED <<error_counter, latency_histogram, request_counter,
                   operation_starts, clock>>
    /\ UNCHANGED telemetry
    /\ UNCHANGED random_state
    /\ UNCHANGED generators
    /\ UNCHANGED engine
    /\ UNCHANGED loggers
    /\ UNCHANGED token_counter
    /\ UNCHANGED llm_call

\* what the logging sink does with a record
Sinks == {"ok", "fails"}

\* the exception the logging sink raises when it fails
SinkError == [type |-> "OSError", arg |-> "sink failed"]

\* AgentLogger._log, lines 119-120: the bound logger's method is called;
\* what the sink raises leaves _log
LogRaises(sink) == IF sink = "ok" THEN NoExc ELSE SinkError

\* the output of a level method of thread t: the record emitted, or the
\* exception that left it
Log(t, sink, record) ==
    IF LogRaises(sink) = NoExc THEN Logged(t, record)
    ELSE [NoOut EXCEPT !.kind = "log_raised", !.by = t, !.error = LogRaises(sink)]

\* where execute goes on after operation_start, which is called inside the
\* scope and before the try block: what it raises leaves execute
AfterOperationStart(e) == IF e = NoExc THEN "validate" ELSE "execute_exit"

\* AgentLogger.operation_start("execute"): the start is stored, then the
\* record is logged
OperationStart(t) ==
    /\ pc[t] = "operation_start"
    /\ operation_starts' = [operation_starts EXCEPT ![ExecuteTimer] = Some(clock)]
    /\ pc' = [pc EXCEPT ![t] = AfterOperationStart(LogRaises(call[t].sink))]
    /\ out' = Log(t, call[t].sink,
                  LogRecord(t, "info", "operation_start:execute",
                            call[t].context.application_id, Nothing))
    /\ exc' = [exc EXCEPT ![t] = LogRaises(call[t].sink)]
    /\ UNCHANGED <<metrics, clock, ops, spans, ctx, call, result>>
    /\ UNCHANGED telemetry
    /\ UNCHANGED added
    /\ UNCHANGED random_state
    /\ UNCHANGED generators
    /\ UNCHANGED engine
    /\ UNCHANGED loggers
    /\ UNCHANGED token_counter
    /\ UNCHANGED llm_call

\* what the body of the validate_input scope raises for a validator outcome
ValidationOutcome(v) ==
    CASE v = "true" -> NoExc
      [] v = "false" -> ValidationError
      [] OTHER -> ValidatorRaised

\* lines 178-180: the validate_input scope is entered and the validator
\* runs; false raises ValueError
Validate(t) ==
    /\ pc[t] = "validate"
    /\ TraceEnter(t, spans[t], ValidateSpanName, "INTERNAL", Nothing)
    /\ \E v \in {"true", "false", "raise"} :
         /\ call' = [call EXCEPT ![t].validator = v, ![t].validator_calls = @ + 1]
         /\ exc' = [exc EXCEPT ![t] = ValidationOutcome(v)]
    /\ pc' = [pc EXCEPT ![t] = "validate_exit"]
    /\ out' = NoOut
    /\ UNCHANGED <<error_counter, latency_histogram, request_counter,
                   operation_starts, clock, ops, result>>
    /\ UNCHANGED telemetry
    /\ UNCHANGED random_state
    /\ UNCHANGED generators
    /\ UNCHANGED engine
    /\ UNCHANGED loggers
    /\ UNCHANGED token_counter
    /\ UNCHANGED llm_call

\* where execute continues after the validate_input scope
AfterValidateAlwaysCore(e) == "core"

AfterValidate(e) == IF e = NoExc THEN "core" ELSE "except"

\* the validate_input scope left, normally or by the exception in flight
ValidateExit(t) ==
    /\ pc[t] = "validate_exit"
    /\ TraceExit(t, exc[t])
    /\ call' = [call EXCEPT ![t].error_adds = IF ErrorRecorded(exc[t]) THEN @ + 1 ELSE @]
    /\ pc' = [pc EXCEPT ![t] = AfterValidate(exc[t])]
    /\ out' = NoOut
    /\ UNCHANGED <<request_counter, operation_starts, clock, ops, exc, result>>
    /\ UNCHANGED telemetry
    /\ UNCHANGED random_state
    /\ UNCHANGED generators
    /\ UNCHANGED engine
    /\ UNCHANGED loggers
    /\ UNCHANGED token_counter
    /\ UNCHANGED llm_call

\* line 183: the core logic returns a payload or raises
CoreCall(t) ==
    /\ pc[t] = "core"
    /\ \/ \E p \in Payloads :
            /\ call' = [call EXCEPT ![t].core = "return", ![t].payload = Some(p),
                                    ![t].core_calls = @ + 1]
            /\ pc' = [pc EXCEPT ![t] = "end_check"]
            /\ exc' = exc
       \/ /\ call' = [call EXCEPT ![t].core = "raise", ![t].core_calls = @ + 1]
          /\ exc' = [exc EXCEPT ![t] = CoreRaised]
          /\ pc' = [pc EXCEPT ![t] = "except"]
    /\ out' = NoOut
    /\ UNCHANGED <<metrics, operation_starts, clock, ops, spans, ctx, result>>
    /\ UNCHANGED telemetry
    /\ UNCHANGED added
    /\ UNCHANGED random_state
    /\ UNCHANGED generators
    /\ UNCHANGED engine
    /\ UNCHANGED loggers
    /\ UNCHANGED token_counter
    /\ UNCHANGED llm_call

\* line 183: the core logic returns a result that has no __dict__ and is
\* serialized by its model_dump method, which returns or raises
CoreCallUnserializable(t) ==
    /\ pc[t] = "core"
    /\ \E p \in {DumpablePayload, UnserializablePayload} :
         call' = [call EXCEPT ![t].core = "return", ![t].payload = Some(p),
                              ![t].core_calls = @ + 1]
    /\ pc' = [pc EXCEPT ![t] = "end_check"]
    /\ out' = NoOut
    /\ UNCHANGED <<metrics, operation_starts, clock, ops, spans, ctx, exc, result>>
    /\ UNCHANGED telemetry
    /\ UNCHANGED added
    /\ UNCHANGED random_state
    /\ UNCHANGED generators
    /\ UNCHANGED engine
    /\ UNCHANGED loggers
    /\ UNCHANGED token_counter
    /\ UNCHANGED llm_call

\* "operation_end:<operation>"
OperationEndEvent(operation) == "operation_end:" \o operation

\* line 153: operation in self._operation_starts
HasTimerAlways(starts, operation) == TRUE

HasTimer(starts, operation) == starts[operation] # Nothing

\* where the caller of operation_end goes on: execute records the request
\* or handles the exception, a direct caller gets the return or the raise
AfterOperationEndRetriesCore(c, e) ==
    IF c.op = "operation_end" THEN "logger_return"
    ELSE IF e = NoExc THEN "core" ELSE "except"

AfterOperationEnd(c, e) ==
    IF c.op = "operation_end" THEN "logger_return"
    ELSE IF e = NoExc THEN "record_success" ELSE "except"

\* KeyError(operation)
TimerKeyErrorOf(operation) == [TimerKeyError EXCEPT !.arg = operation]

\* AgentLogger.operation_end, line 153: if operation in self._operation_starts;
\* without a stored start the record is logged with duration_ms = None
OperationEndCheck(t) ==
    LET c == call[t]
        record == LogRecord(t, "info", OperationEndEvent(c.timer),
                            c.context.application_id, Nothing)
    IN
    /\ pc[t] = "end_check"
    /\ IF HasTimer(operation_starts, c.timer)
       THEN /\ pc' = [pc EXCEPT ![t] = "end_read"]
            /\ out' = NoOut
            /\ exc' = exc
       ELSE /\ pc' = [pc EXCEPT ![t] = AfterOperationEnd(c, LogRaises(c.sink))]
            /\ out' = Log(t, c.sink, record)
            /\ exc' = [exc EXCEPT ![t] = LogRaises(c.sink)]
    /\ UNCHANGED <<metrics, operation_starts, clock, ops, spans, ctx, call, result>>
    /\ UNCHANGED telemetry
    /\ UNCHANGED added
    /\ UNCHANGED random_state
    /\ UNCHANGED generators
    /\ UNCHANGED engine
    /\ UNCHANGED loggers
    /\ UNCHANGED token_counter
    /\ UNCHANGED llm_call

\* line 154: self._operation_starts[operation] is read and the duration
\* computed
OperationEndRead(t) ==
    LET c == call[t] IN
    /\ pc[t] = "end_read"
    /\ IF operation_starts[c.timer] = Nothing
       THEN /\ exc' = [exc EXCEPT ![t] = TimerKeyErrorOf(c.timer)]
            /\ pc' = [pc EXCEPT ![t] = AfterOperationEnd(c, TimerKeyErrorOf(c.timer))]
            /\ call' = call
       ELSE /\ exc' = exc
            /\ pc' = [pc EXCEPT ![t] = "end_delete"]
            /\ call' = [call EXCEPT ![t].duration_ms =
                          Some(LatencyMs(clock, operation_starts[c.timer][1]))]
    /\ out' = NoOut
    /\ UNCHANGED <<metrics, operation_starts, clock, ops, spans, ctx, result>>
    /\ UNCHANGED telemetry
    /\ UNCHANGED added
    /\ UNCHANGED random_state
    /\ UNCHANGED generators
    /\ UNCHANGED engine
    /\ UNCHANGED loggers
    /\ UNCHANGED token_counter
    /\ UNCHANGED llm_call

\* line 155: del self._operation_starts[operation]
DeleteTimerKeeps(starts, operation) == starts

DeleteTimer(starts, operation) == [starts EXCEPT ![operation] = Nothing]

\* line 155: del self._operation_starts[operation], then the record is logged
OperationEndDelete(t) ==
    LET c == call[t]
        record == LogRecord(t, "info", OperationEndEvent(c.timer),
                            c.context.application_id, c.duration_ms)
    IN
    /\ pc[t] = "end_delete"
    /\ IF operation_starts[c.timer] = Nothing
       THEN /\ exc' = [exc EXCEPT ![t] = TimerKeyErrorOf(c.timer)]
            /\ pc' = [pc EXCEPT ![t] = AfterOperationEnd(c, TimerKeyErrorOf(c.timer))]
            /\ operation_starts' = operation_starts
            /\ out' = NoOut
       ELSE /\ exc' = [exc EXCEPT ![t] = LogRaises(c.sink)]
            /\ pc' = [pc EXCEPT ![t] = AfterOperationEnd(c, LogRaises(c.sink))]
            /\ operation_starts' = DeleteTimer(operation_starts, c.timer)
            /\ out' = Log(t, c.sink, record)
    /\ call' = [call EXCEPT ![t].duration_ms = Nothing]
    /\ UNCHANGED <<metrics, clock, ops, spans, ctx, result>>
    /\ UNCHANGED telemetry
    /\ UNCHANGED added
    /\ UNCHANGED random_state
    /\ UNCHANGED generators
    /\ UNCHANGED engine
    /\ UNCHANGED loggers
    /\ UNCHANGED token_counter
    /\ UNCHANGED llm_call

\* lines 186-203: latency, record_request(success=True) and the successful
\* envelope
RecordSuccess(t) ==
    /\ pc[t] = "record_success"
    /\ request_counter' = [request_counter EXCEPT ![TRUE] = CounterAdd(@, 1)]
    /\ added' = [added EXCEPT ![t].request_counter[TRUE] = @ + 1]
    /\ IF SerializeRaises(call[t].payload[1])
       THEN /\ call' = [call EXCEPT ![t].request_adds = @ + 1]
            /\ result' = result
            /\ exc' = [exc EXCEPT ![t] = SerializeError]
            /\ pc' = [pc EXCEPT ![t] = "except"]
       ELSE /\ call' = [call EXCEPT ![t].request_adds = @ + 1, ![t].start_time = 0]
            /\ result' = [result EXCEPT ![t] =
                            Some(SuccessResult(call[t].payload[1],
                                               LatencyMs(clock, call[t].start_time)))]
            /\ exc' = exc
            /\ pc' = [pc EXCEPT ![t] = "execute_exit"]
    /\ out' = NoOut
    /\ UNCHANGED <<active_operations, error_counter, latency_histogram,
                   operation_starts, clock, ops, spans, ctx>>
    /\ UNCHANGED telemetry
    /\ UNCHANGED random_state
    /\ UNCHANGED generators
    /\ UNCHANGED engine
    /\ UNCHANGED loggers
    /\ UNCHANGED token_counter
    /\ UNCHANGED llm_call

\* lines 205-221: an exception left the try block.  "except Exception"
\* catches it: the handler logs, records the failed request and builds the
\* failed envelope, and the exception is no longer in flight.  Anything
\* else goes on to the exit of the <agent>.execute scope, and so does what
\* logger.error raises inside the handler.
HandleFailure(t) ==
    /\ pc[t] = "except"
    /\ IF IsException(exc[t]) /\ LogRaises(call[t].sink) # NoExc
       THEN /\ exc' = [exc EXCEPT ![t] = LogRaises(call[t].sink)]
            /\ out' = Log(t, call[t].sink,
                          LogRecord(t, "error", "execute_failed",
                                    call[t].context.application_id, Nothing))
            /\ UNCHANGED <<request_counter, call, result, added>>
       ELSE IF IsException(exc[t])
       THEN /\ request_counter' = [request_counter EXCEPT ![FALSE] = CounterAdd(@, 1)]
            /\ added' = [added EXCEPT ![t].request_counter[FALSE] = @ + 1]
            /\ call' = [call EXCEPT ![t].request_adds = @ + 1, ![t].failure = exc[t],
                                    ![t].start_time = 0]
            /\ result' = [result EXCEPT ![t] =
                            Some(FailureResult(exc[t], call[t].payload,
                                               LatencyMs(clock, call[t].start_time)))]
            /\ exc' = [exc EXCEPT ![t] = NoExc]
            /\ out' = Logged(t, LogRecord(t, "error", "execute_failed",
                                          call[t].context.application_id, Nothing))
       ELSE /\ UNCHANGED <<request_counter, call, result, exc, added>>
            /\ out' = NoOut
    /\ pc' = [pc EXCEPT ![t] = "execute_exit"]
    /\ UNCHANGED <<active_operations, error_counter, latency_histogram,
                   operation_starts, clock, ops, spans, ctx>>
    /\ UNCHANGED telemetry
    /\ UNCHANGED random_state
    /\ UNCHANGED generators
    /\ UNCHANGED engine
    /\ UNCHANGED loggers
    /\ UNCHANGED token_counter
    /\ UNCHANGED llm_call

\* how a call ends: with its result, or with the exception in flight
Ended(e) == IF e = NoExc THEN "returned" ELSE "raised"

\* the <agent>.execute scope is left, by the return statement or by an
\* exception the handler did not catch
ExecuteExit(t) ==
    /\ pc[t] = "execute_exit"
    /\ TraceExit(t, exc[t])
    /\ call' = [call EXCEPT ![t].status = IF call[t].op = "consume" THEN @ ELSE Ended(exc[t]),
                            ![t].raised = exc[t],
                            ![t].error_adds = IF ErrorRecorded(exc[t]) THEN @ + 1 ELSE @]
    /\ pc' = [pc EXCEPT ![t] = IF call[t].op = "consume" THEN "consume_exit" ELSE "idle"]
    /\ out' = NoOut
    /\ UNCHANGED <<request_counter, operation_starts, clock, ops, exc, result>>
    /\ UNCHANGED telemetry
    /\ UNCHANGED random_state
    /\ UNCHANGED generators
    /\ UNCHANGED engine
    /\ UNCHANGED loggers
    /\ UNCHANGED token_counter
    /\ UNCHANGED llm_call

\* ------------------------------------------------------------------------
\* Context propagation and the Kafka helpers
\* ------------------------------------------------------------------------
\* AgentTelemetry.inject_context with the span context c current
InjectContext(carrier, c) == PropagatorInject(carrier, c)

\* AgentTelemetry.extract_context
ExtractContext(carrier) == PropagatorExtract(carrier)

\* KafkaTracingMiddleware.prepare_headers(application_id=...) with the span
\* context c current
PrepareHeaders(c, application_id) ==
    LET headers == InjectContext(EmptyCarrier, c) IN
    IF application_id # "" THEN [headers EXCEPT !.xapp = Some(application_id)]
    ELSE headers

\* the context trace_consumption passes to trace_operation: extracted when
\* headers is truthy, None otherwise
ConsumptionContextUnparsed(headers) ==
    IF headers # Nothing /\ CarrierTruthy(headers[1])
    THEN Some(PropagatorExtractLenient(headers[1]))
    ELSE Nothing

ConsumptionContextWhenNotNone(headers) ==
    IF headers # Nothing THEN Some(ExtractContext(headers[1])) ELSE Nothing

ConsumptionContext(headers) ==
    IF headers # Nothing /\ CarrierTruthy(headers[1])
    THEN Some(ExtractContext(headers[1]))
    ELSE Nothing

\* consume_and_process, lines 244-250: the consumer scope entered
StartConsume(t, messages, headers) ==
    /\ pc[t] = "idle"
    /\ ops < MaxOps
    /\ \E message_value \in messages, message_headers \in headers :
         /\ call' = [call EXCEPT ![t] =
                       NewCall("consume", message_value, message_headers, NoContext,
                               CurrentSpan(t))]
         /\ TraceEnter(t, OpenSpans(t), ConsumeSpanName, "CONSUMER",
                       ConsumptionContext(message_headers))
    /\ ops' = ops + 1
    /\ pc' = [pc EXCEPT ![t] = "consume_body"]
    /\ result' = [result EXCEPT ![t] = Nothing]
    /\ out' = NoOut
    /\ exc' = [exc EXCEPT ![t] = NoExc]
    /\ UNCHANGED <<error_counter, latency_histogram, request_counter,
                   operation_starts, clock>>
    /\ UNCHANGED telemetry
    /\ UNCHANGED random_state
    /\ UNCHANGED generators
    /\ UNCHANGED engine
    /\ UNCHANGED loggers
    /\ UNCHANGED token_counter
    /\ UNCHANGED llm_call

\* lines 251-264: the message is logged, the context built and execute
\* called, which enters its scope (execute, lines 157-170)
ConsumeBody(t) ==
    /\ pc[t] = "consume_body"
    /\ call' = [call EXCEPT ![t].context = ConsumeContext(call[t].input_data, call[t].headers),
                            ![t].start_time = clock]
    /\ TraceEnter(t, spans[t], ExecuteSpanName, "INTERNAL", Nothing)
    /\ pc' = [pc EXCEPT ![t] = "operation_start"]
    /\ out' = Logged(t, LogRecord(t, "info", "kafka_consume",
                                  Get(call[t].input_data.application_id, "unknown"),
                                  Nothing))
    /\ UNCHANGED <<error_counter, latency_histogram, request_counter,
                   operation_starts, clock, ops, exc, result>>
    /\ UNCHANGED telemetry
    /\ UNCHANGED random_state
    /\ UNCHANGED generators
    /\ UNCHANGED engine
    /\ UNCHANGED loggers
    /\ UNCHANGED token_counter
    /\ UNCHANGED llm_call

\* execute has returned: the consumer scope is left and the result returned
ConsumeExit(t) ==
    /\ pc[t] = "consume_exit"
    /\ TraceExit(t, exc[t])
    /\ call' = [call EXCEPT ![t].status = Ended(exc[t]),
                            ![t].error_adds = IF ErrorRecorded(exc[t]) THEN @ + 1 ELSE @]
    /\ pc' = [pc EXCEPT ![t] = "idle"]
    /\ out' = NoOut
    /\ UNCHANGED <<request_counter, operation_starts, clock, ops, exc, result>>
    /\ UNCHANGED telemetry
    /\ UNCHANGED random_state
    /\ UNCHANGED generators
    /\ UNCHANGED engine
    /\ UNCHANGED loggers
    /\ UNCHANGED token_counter
    /\ UNCHANGED llm_call

\* the caller opens KafkaTracingMiddleware.trace_production around its
\* work; the record of its previous call is dropped with the spans of it
ProductionEnter(t) ==
    /\ pc[t] = "idle"
    /\ ctx[t] = <<>>
    /\ ops < MaxOps
    /\ TraceEnter(t, <<>>, ProduceSpanName, "PRODUCER", Nothing)
    /\ ops' = ops + 1
    /\ call' = [call EXCEPT ![t] = NoCall]
    /\ result' = [result EXCEPT ![t] = Nothing]
    /\ exc' = [exc EXCEPT ![t] = NoExc]
    /\ out' = NoOut
    /\ UNCHANGED <<error_counter, latency_histogram, request_counter,
                   operation_starts, clock, pc>>
    /\ UNCHANGED telemetry
    /\ UNCHANGED random_state
    /\ UNCHANGED generators
    /\ UNCHANGED engine
    /\ UNCHANGED loggers
    /\ UNCHANGED token_counter
    /\ UNCHANGED llm_call

\* the body of the caller's trace_production scope ends
ProductionExit(t) ==
    /\ pc[t] = "idle"
    /\ ctx[t] # <<>>
    /\ TraceExit(t, NoExc)
    /\ out' = NoOut
    /\ UNCHANGED <<request_counter, operation_starts, clock, ops, pc, call, exc, result>>
    /\ UNCHANGED telemetry
    /\ UNCHANGED random_state
    /\ UNCHANGED generators
    /\ UNCHANGED engine
    /\ UNCHANGED loggers
    /\ UNCHANGED token_counter
    /\ UNCHANGED llm_call

\* the message body prepare_output_message builds
OutputValue(r, context) ==
    [application_id |-> context.application_id, request_id |-> context.request_id,
     agent |-> AgentNameValue, success |-> r.success, data |-> r.data,
     error |-> r.error, latency_ms |-> r.latency_ms]

\* InstrumentedAgent.prepare_output_message(result, context), called by
\* the caller with the result and the context of its last call
PrepareOutputMessageInPlace(t) ==
    LET headers == PrepareHeaders(CurrentSpanContext(t), call[t].context.application_id) IN
    /\ pc[t] = "idle"
    /\ call[t].status = "returned"
    /\ result[t] # Nothing
    /\ out' = [NoOut EXCEPT !.kind = "prepare", !.by = t, !.headers = headers,
                            !.value = Some(OutputValue(result[t][1], call[t].context)),
                            !.current = CurrentSpanContext(t)]
    /\ call' = [call EXCEPT ![t].context.trace_headers = headers]
    /\ UNCHANGED <<metrics, operation_starts, clock, ops, spans, ctx, pc, exc, result>>
    /\ UNCHANGED telemetry
    /\ UNCHANGED added
    /\ UNCHANGED random_state
    /\ UNCHANGED generators
    /\ UNCHANGED engine
    /\ UNCHANGED loggers
    /\ UNCHANGED token_counter
    /\ UNCHANGED llm_call

PrepareOutputMessage(t) ==
    /\ pc[t] = "idle"
    /\ call[t].status = "returned"
    /\ result[t] # Nothing
    /\ out' = [kind |-> "prepare", by |-> t,
               headers |-> PrepareHeaders(CurrentSpanContext(t),
                                          call[t].context.application_id),
               value |-> Some(OutputValue(result[t][1], call[t].context)),
               context |-> InvalidSpanContext,
               current |-> CurrentSpanContext(t)]
    /\ UNCHANGED <<metrics, operation_starts, clock, ops, spans, ctx, pc, call, exc,
                   result>>
    /\ UNCHANGED telemetry
    /\ UNCHANGED added
    /\ UNCHANGED random_state
    /\ UNCHANGED generators
    /\ UNCHANGED engine
    /\ UNCHANGED loggers
    /\ UNCHANGED token_counter
    /\ UNCHANGED llm_call

\* the wall clock advances
Tick ==
    /\ clock < MaxClock
    /\ clock' = clock + 1
    /\ out' = NoOut
    /\ UNCHANGED <<metrics, operation_starts, ops, spans, ctx, pc, call, exc, result>>
    /\ UNCHANGED telemetry
    /\ UNCHANGED added
    /\ UNCHANGED random_state
    /\ UNCHANGED generators
    /\ UNCHANGED engine
    /\ UNCHANGED loggers
    /\ UNCHANGED token_counter
    /\ UNCHANGED llm_call

\* worker threads sharing the agent, each consuming well-formed messages,
\* their calls interleaved within one reading of the clock
Next ==
    \/ \E t \in Threads : StartExecute(t, MessagesOf(t), {Nothing})
    \/ \E t \in Threads : OperationStart(t)
    \/ \E t \in Threads : Validate(t)
    \/ \E t \in Threads : ValidateExit(t)
    \/ \E t \in Threads : CoreCall(t)
    \/ \E t \in Threads : OperationEndCheck(t)
    \/ \E t \in Threads : OperationEndRead(t)
    \/ \E t \in Threads : OperationEndDelete(t)
    \/ \E t \in Threads : RecordSuccess(t)
    \/ \E t \in Threads : HandleFailure(t)
    \/ \E t \in Threads : ExecuteExit(t)
    \/ \E t \in Threads : StartConsume(t, MessagesOf(t), WorkerHeaders)
    \/ \E t \in Threads : ConsumeBody(t)
    \/ \E t \in Threads : ConsumeExit(t)
    \/ \E t \in Threads : ProductionEnter(t)
    \/ \E t \in Threads : ProductionExit(t)
    \/ \E t \in Threads : PrepareOutputMessage(t)

Spec == Init /\ [][Next]_vars

\* one thread making its calls one after the other, over every input,
\* while the clock advances
SequentialThreads == {1}

NextSequential ==
    \/ \E t \in SequentialThreads : StartExecute(t, Messages, ContextArguments)
    \/ \E t \in SequentialThreads : OperationStart(t)
    \/ \E t \in SequentialThreads : Validate(t)
    \/ \E t \in SequentialThreads : ValidateExit(t)
    \/ \E t \in SequentialThreads : CoreCall(t)
    \/ \E t \in SequentialThreads : OperationEndCheck(t)
    \/ \E t \in SequentialThreads : OperationEndRead(t)
    \/ \E t \in SequentialThreads : OperationEndDelete(t)
    \/ \E t \in SequentialThreads : RecordSuccess(t)
    \/ \E t \in SequentialThreads : HandleFailure(t)
    \/ \E t \in SequentialThreads : ExecuteExit(t)
    \/ \E t \in SequentialThreads : StartConsume(t, Messages, InboundHeaders)
    \/ \E t \in SequentialThreads : ConsumeBody(t)
    \/ \E t \in SequentialThreads : ConsumeExit(t)
    \/ \E t \in SequentialThreads : ProductionEnter(t)
    \/ \E t \in SequentialThreads : ProductionExit(t)
    \/ \E t \in SequentialThreads : PrepareOutputMessage(t)
    \/ Tick

SpecSequential == Init /\ [][NextSequential]_vars

\* ------------------------------------------------------------------------
\* External cancellation: the platform raises a BaseException inside the
\* body that is running; no handler of the agent names it
\* ------------------------------------------------------------------------
\* positions of execute inside the body of the <agent>.execute scope, after
\* the validate_input scope
ExecuteBody == {"operation_start", "core", "end_check", "end_read",
                "end_delete", "record_success"}

\* the body of the <agent>.execute scope is cancelled: the exception goes
\* to the except clause of execute, which does not catch it
CancelExecute(t) ==
    /\ pc[t] \in ExecuteBody
    /\ exc' = [exc EXCEPT ![t] = Cancelled]
    /\ pc' = [pc EXCEPT ![t] = "except"]
    /\ out' = NoOut
    /\ UNCHANGED <<metrics, operation_starts, clock, ops, spans, ctx, call, result>>
    /\ UNCHANGED telemetry
    /\ UNCHANGED added
    /\ UNCHANGED random_state
    /\ UNCHANGED generators
    /\ UNCHANGED engine
    /\ UNCHANGED loggers
    /\ UNCHANGED token_counter
    /\ UNCHANGED llm_call

\* the validate_input scope is entered and its body is cancelled while the
\* validator runs
CancelValidate(t) ==
    /\ pc[t] = "validate"
    /\ TraceEnter(t, spans[t], ValidateSpanName, "INTERNAL", Nothing)
    /\ call' = [call EXCEPT ![t].validator = "cancelled", ![t].validator_calls = @ + 1]
    /\ exc' = [exc EXCEPT ![t] = Cancelled]
    /\ pc' = [pc EXCEPT ![t] = "validate_exit"]
    /\ out' = NoOut
    /\ UNCHANGED <<error_counter, latency_histogram, request_counter,
                   operation_starts, clock, ops, result>>
    /\ UNCHANGED telemetry
    /\ UNCHANGED random_state
    /\ UNCHANGED generators
    /\ UNCHANGED engine
    /\ UNCHANGED loggers
    /\ UNCHANGED token_counter
    /\ UNCHANGED llm_call

\* the body of the caller's trace_production scope is cancelled
CancelProduction(t) ==
    /\ pc[t] = "idle"
    /\ ctx[t] # <<>>
    /\ TraceExit(t, Cancelled)
    /\ exc' = [exc EXCEPT ![t] = Cancelled]
    /\ out' = NoOut
    /\ UNCHANGED <<request_counter, operation_starts, clock, ops, pc, call, result>>
    /\ UNCHANGED telemetry
    /\ UNCHANGED random_state
    /\ UNCHANGED generators
    /\ UNCHANGED engine
    /\ UNCHANGED loggers
    /\ UNCHANGED token_counter
    /\ UNCHANGED llm_call

NextCancellation ==
    \/ \E t \in SequentialThreads : StartExecute(t, MessagesOf(t), {Nothing})
    \/ \E t \in SequentialThreads : OperationStart(t)
    \/ \E t \in SequentialThreads : Validate(t)
    \/ \E t \in SequentialThreads : ValidateExit(t)
    \/ \E t \in SequentialThreads : CoreCall(t)
    \/ \E t \in SequentialThreads : OperationEndCheck(t)
    \/ \E t \in SequentialThreads : OperationEndRead(t)
    \/ \E t \in SequentialThreads : OperationEndDelete(t)
    \/ \E t \in SequentialThreads : RecordSuccess(t)
    \/ \E t \in SequentialThreads : HandleFailure(t)
    \/ \E t \in SequentialThreads : ExecuteExit(t)
    \/ \E t \in SequentialThreads : StartConsume(t, MessagesOf(t), WorkerHeaders)
    \/ \E t \in SequentialThreads : ConsumeBody(t)
    \/ \E t \in SequentialThreads : ConsumeExit(t)
    \/ \E t \in SequentialThreads : ProductionEnter(t)
    \/ \E t \in SequentialThreads : ProductionExit(t)
    \/ \E t \in SequentialThreads : CancelExecute(t)
    \/ \E t \in SequentialThreads : CancelValidate(t)
    \/ \E t \in SequentialThreads : CancelProduction(t)

SpecCancellation == Init /\ [][NextCancellation]_vars

\* ------------------------------------------------------------------------
\* A logging sink that fails: while a thread is inside execute the sink
\* starts or stops failing, and every record logged meanwhile raises
\* ------------------------------------------------------------------------
InsideExecute == ExecuteBody \cup {"validate", "validate_exit", "except"}

SinkSwitch(t) ==
    /\ pc[t] \in InsideExecute
    /\ \E sink \in Sinks \ {call[t].sink} :
          call' = [call EXCEPT ![t].sink = sink]
    /\ out' = NoOut
    /\ UNCHANGED <<metrics, operation_starts, clock, ops, spans, ctx, pc, exc, result>>
    /\ UNCHANGED telemetry
    /\ UNCHANGED added
    /\ UNCHANGED random_state
    /\ UNCHANGED generators
    /\ UNCHANGED engine
    /\ UNCHANGED loggers
    /\ UNCHANGED token_counter
    /\ UNCHANGED llm_call

NextSinkFaults ==
    \/ \E t \in SequentialThreads : StartExecute(t, MessagesOf(t), {Nothing})
    \/ \E t \in SequentialThreads : OperationStart(t)
    \/ \E t \in SequentialThreads : Validate(t)
    \/ \E t \in SequentialThreads : ValidateExit(t)
    \/ \E t \in SequentialThreads : CoreCall(t)
    \/ \E t \in SequentialThreads : OperationEndCheck(t)
    \/ \E t \in SequentialThreads : OperationEndRead(t)
    \/ \E t \in SequentialThreads : OperationEndDelete(t)
    \/ \E t \in SequentialThreads : RecordSuccess(t)
    \/ \E t \in SequentialThreads : HandleFailure(t)
    \/ \E t \in SequentialThreads : ExecuteExit(t)
    \/ \E t \in SequentialThreads : SinkSwitch(t)

SpecSinkFaults == Init /\ [][NextSinkFaults]_vars

\* ------------------------------------------------------------------------
\* A failing step after the core logic: the sink fails at operation_end or
\* the result cannot be serialized.  One thread, the clock advancing.
\* ------------------------------------------------------------------------
NextLateFaults ==
    \/ \E t \in SequentialThreads : StartExecute(t, MessagesOf(t), {Nothing})
    \/ \E t \in SequentialThreads : OperationStart(t)
    \/ \E t \in SequentialThreads : Validate(t)
    \/ \E t \in SequentialThreads : ValidateExit(t)
    \/ \E t \in SequentialThreads : CoreCall(t)
    \/ \E t \in SequentialThreads : CoreCallUnserializable(t)
    \/ \E t \in SequentialThreads : OperationEndCheck(t)
    \/ \E t \in SequentialThreads : OperationEndRead(t)
    \/ \E t \in SequentialThreads : OperationEndDelete(t)
    \/ \E t \in SequentialThreads : RecordSuccess(t)
    \/ \E t \in SequentialThreads : HandleFailure(t)
    \/ \E t \in SequentialThreads : ExecuteExit(t)
    \/ \E t \in SequentialThreads : SinkSwitch(t)
    \/ Tick

SpecLateFaults == Init /\ [][NextLateFaults]_vars

\* ------------------------------------------------------------------------
\* A telemetry step that fails inside trace_operation: the span cannot be
\* opened, or the latency histogram cannot be recorded
\* ------------------------------------------------------------------------
\* what the failing telemetry call raises
TelemetryError == [type |-> "RuntimeError", arg |-> "telemetry failed"]

\* lines 287-295: active_operations.add(1), then start_as_current_span
\* raises.  No span is opened, the try/finally of the scope is never
\* entered, and the exception leaves execute, whose "with" is outside its
\* own try block.
StartExecuteSpanFails(t, inputs) ==
    /\ pc[t] = "idle"
    /\ ops < MaxOps
    /\ \E input_data \in inputs :
         call' = [call EXCEPT ![t] =
                    [NewCall("execute", input_data, Nothing,
                             CreateContext(input_data), CurrentSpan(t))
                     EXCEPT !.status = "raised", !.raised = TelemetryError]]
    /\ active_operations' = CounterAdd(active_operations, 1)
    /\ added' = [added EXCEPT ![t].active_operations = @ + 1]
    /\ ops' = ops + 1
    /\ result' = [result EXCEPT ![t] = Nothing]
    /\ exc' = [exc EXCEPT ![t] = TelemetryError]
    /\ out' = NoOut
    /\ UNCHANGED <<error_counter, latency_histogram, request_counter,
                   operation_starts, clock, spans, ctx, pc>>
    /\ UNCHANGED telemetry
    /\ UNCHANGED random_state
    /\ UNCHANGED generators
    /\ UNCHANGED engine
    /\ UNCHANGED loggers
    /\ UNCHANGED token_counter
    /\ UNCHANGED llm_call

\* lines 294-310: the <agent>.execute scope is left and
\* latency_histogram.record raises in the finally clause.  The status and
\* the error counter are already set, active_operations.add(-1) is not
\* reached, start_as_current_span ends the span, with the status the scope
\* gave it or the one the library sets for the exception, and the
\* exception replaces the return value of execute.
ExecuteExitRecordFails(t) ==
    LET s == CurrentSpan(t) IN
    /\ pc[t] = "execute_exit"
    /\ call[t].op = "execute"
    /\ \E sp \in {ClosedSpan(spans[t][s], exc[t]), ClosedSpan(spans[t][s], TelemetryError)} :
          spans' = [spans EXCEPT ![t][s] = sp]
    /\ error_counter' = IF ErrorRecorded(exc[t])
                        THEN [error_counter EXCEPT ![spans[t][s].name] = CounterAdd(@, 1)]
                        ELSE error_counter
    /\ added' = [added EXCEPT ![t].error_counter[spans[t][s].name] =
                                 IF ErrorRecorded(exc[t]) THEN @ + 1 ELSE @]
    /\ ctx' = [ctx EXCEPT ![t] = SubSeq(@, 1, Len(@) - 1)]
    /\ call' = [call EXCEPT ![t].status = "raised",
                            ![t].raised = TelemetryError,
                            ![t].error_adds = IF ErrorRecorded(exc[t]) THEN @ + 1 ELSE @]
    /\ exc' = [exc EXCEPT ![t] = TelemetryError]
    /\ result' = [result EXCEPT ![t] = Nothing]
    /\ pc' = [pc EXCEPT ![t] = "idle"]
    /\ out' = NoOut
    /\ UNCHANGED <<active_operations, latency_histogram, request_counter,
                   operation_starts, clock, ops>>
    /\ UNCHANGED telemetry
    /\ UNCHANGED random_state
    /\ UNCHANGED generators
    /\ UNCHANGED engine
    /\ UNCHANGED loggers
    /\ UNCHANGED token_counter
    /\ UNCHANGED llm_call

NextTelemetryFaults ==
    \/ \E t \in SequentialThreads : StartExecute(t, MessagesOf(t), {Nothing})
    \/ \E t \in SequentialThreads : StartExecuteSpanFails(t, MessagesOf(t))
    \/ \E t \in SequentialThreads : OperationStart(t)
    \/ \E t \in SequentialThreads : Validate(t)
    \/ \E t \in SequentialThreads : ValidateExit(t)
    \/ \E t \in SequentialThreads : CoreCall(t)
    \/ \E t \in SequentialThreads : OperationEndCheck(t)
    \/ \E t \in SequentialThreads : OperationEndRead(t)
    \/ \E t \in SequentialThreads : OperationEndDelete(t)
    \/ \E t \in SequentialThreads : RecordSuccess(t)
    \/ \E t \in SequentialThreads : HandleFailure(t)
    \/ \E t \in SequentialThreads : ExecuteExit(t)
    \/ \E t \in SequentialThreads : ExecuteExitRecordFails(t)

SpecTelemetryFaults == Init /\ [][NextTelemetryFaults]_vars

\* ------------------------------------------------------------------------
\* The propagation format on its own: a carrier and a current span context
\* are given, and inject_context / extract_context are applied
\* ------------------------------------------------------------------------
\* header fields a peer may send
ReceivedVersions == { <<0, 0>>, <<0, 1>>, <<15, 15>> }

ReceivedTraceIds ==
    { ValidTraceparent[2], FormatHex(0, TraceIdHexLen), <<10, 1>>,
      [ValidTraceparent[2] EXCEPT ![1] = 16] }

ReceivedSpanIds == { ValidTraceparent[3], FormatHex(0, SpanIdHexLen) }

ReceivedTails == { <<>>, << <<7>> >> }

ReceivedCarriers ==
    { [EmptyCarrier EXCEPT !.traceparent = Some(<<v, tid, sid, <<0, 1>> >> \o tail)] :
        v \in ReceivedVersions, tid \in ReceivedTraceIds, sid \in ReceivedSpanIds,
        tail \in ReceivedTails }
    \cup { EmptyCarrier, [EmptyCarrier EXCEPT !.other = Some("v")],
           [EmptyCarrier EXCEPT !.traceparent = Some(<< <<0, 0>>, ValidTraceparent[2] >>)] }

\* span contexts a thread may have current
CurrentContexts ==
    { InvalidSpanContext, RemoteParent,
      [trace_id |-> 2147483647, span_id |-> 268435455, is_remote |-> FALSE] }
    \cup { [trace_id |-> RootTraceId(SpanId(t, 1)), span_id |-> SpanId(t, i),
            is_remote |-> FALSE] : t \in Threads, i \in 1..4 }
    \cup { [trace_id |-> RemoteParent.trace_id, span_id |-> SpanId(t, i),
            is_remote |-> FALSE] : t \in Threads, i \in 1..3 }

InitPropagation ==
    /\ active_operations = 0
    /\ error_counter = [n \in OperationNames |-> 0]
    /\ latency_histogram = [n \in OperationNames |-> 0]
    /\ request_counter = [b \in BOOLEAN |-> 0]
    /\ operation_starts = [n \in {ExecuteTimer} |-> Nothing]
    /\ clock = 0
    /\ ops = 0
    /\ spans = [t \in Threads |-> <<>>]
    /\ ctx = [t \in Threads |-> <<>>]
    /\ telemetry = InitializedTelemetry
    /\ added = NothingAdded
    /\ random_state = 0
    /\ generators = NoGenerators
    /\ engine = NoEngine
    /\ loggers = NoLoggers
    /\ token_counter = NoTokens
    /\ llm_call = NoLlmCalls
    /\ pc = [t \in Threads |-> "idle"]
    /\ call = [t \in Threads |-> NoCall]
    /\ exc = [t \in Threads |-> NoExc]
    /\ result = [t \in Threads |-> Nothing]
    /\ \E carrier \in ReceivedCarriers, c \in CurrentContexts :
         out = [NoOut EXCEPT !.kind = "given", !.headers = carrier, !.current = c]

\* inject_context(carrier) on an empty carrier
InjectEmpty ==
    /\ out.kind = "given"
    /\ out' = [out EXCEPT !.kind = "injected",
                          !.headers = InjectContext(EmptyCarrier, out.current)]
    /\ UNCHANGED <<metrics, operation_starts, clock, ops, spans, ctx, pc, call, exc,
                   result>>
    /\ UNCHANGED telemetry
    /\ UNCHANGED added
    /\ UNCHANGED random_state
    /\ UNCHANGED generators
    /\ UNCHANGED engine
    /\ UNCHANGED loggers
    /\ UNCHANGED token_counter
    /\ UNCHANGED llm_call

\* extract_context(carrier) on the received carrier
ExtractReceived ==
    /\ out.kind = "given"
    /\ out' = [out EXCEPT !.kind = "extracted", !.context = ExtractContext(out.headers)]
    /\ UNCHANGED <<metrics, operation_starts, clock, ops, spans, ctx, pc, call, exc,
                   result>>
    /\ UNCHANGED telemetry
    /\ UNCHANGED added
    /\ UNCHANGED random_state
    /\ UNCHANGED generators
    /\ UNCHANGED engine
    /\ UNCHANGED loggers
    /\ UNCHANGED token_counter
    /\ UNCHANGED llm_call

\* extract_context(carrier) on the carrier inject_context filled
ExtractInjected ==
    /\ out.kind = "injected"
    /\ out' = [out EXCEPT !.kind = "roundtrip", !.context = ExtractContext(out.headers)]
    /\ UNCHANGED <<metrics, operation_starts, clock, ops, spans, ctx, pc, call, exc,
                   result>>
    /\ UNCHANGED telemetry
    /\ UNCHANGED added
    /\ UNCHANGED random_state
    /\ UNCHANGED generators
    /\ UNCHANGED engine
    /\ UNCHANGED loggers
    /\ UNCHANGED token_counter
    /\ UNCHANGED llm_call

NextPropagation == InjectEmpty \/ ExtractReceived \/ ExtractInjected

SpecPropagation == InitPropagation /\ [][NextPropagation]_vars

\* ------------------------------------------------------------------------
\* The AgentTelemetry singleton on its own: a thread calls initialize,
\* get_instance and record_request on the class as the module defines it
\* ------------------------------------------------------------------------
\* AgentName values passed to initialize
AgentNames == {AgentNameValue, "agent-intake"}

\* the config argument: None or a TelemetryConfig
ConfigArguments == {Nothing, Some("custom")}

InitTelemetry ==
    /\ active_operations = 0
    /\ error_counter = [n \in OperationNames |-> 0]
    /\ latency_histogram = [n \in OperationNames |-> 0]
    /\ request_counter = [b \in BOOLEAN |-> 0]
    /\ operation_starts = [n \in {ExecuteTimer} |-> Nothing]
    /\ clock = 0
    /\ ops = 0
    /\ spans = [t \in Threads |-> <<>>]
    /\ ctx = [t \in Threads |-> <<>>]
    /\ telemetry = FreshTelemetry
    /\ added = NothingAdded
    /\ random_state = 0
    /\ generators = NoGenerators
    /\ engine = NoEngine
    /\ loggers = NoLoggers
    /\ token_counter = NoTokens
    /\ llm_call = NoLlmCalls
    /\ pc = [t \in Threads |-> "idle"]
    /\ call = [t \in Threads |-> NoCall]
    /\ exc = [t \in Threads |-> NoExc]
    /\ result = [t \in Threads |-> Nothing]
    /\ out = NoOut

\* what the singleton actions leave alone
agent_state == <<operation_starts, clock, spans, ctx, call, exc, result>>

\* AgentTelemetry.initialize(agent_name, config) is called: cls(...)
CallInitialize(t) ==
    /\ pc[t] = "idle"
    /\ ops < MaxOps
    /\ \E agent_name \in AgentNames, config \in ConfigArguments :
         telemetry' = [telemetry EXCEPT !.frame[t] =
                         [agent_name |-> agent_name, config |-> config, self |-> 0]]
    /\ ops' = ops + 1
    /\ pc' = [pc EXCEPT ![t] = "new_check"]
    /\ out' = NoOut
    /\ UNCHANGED <<metrics, agent_state>>
    /\ UNCHANGED added
    /\ UNCHANGED random_state
    /\ UNCHANGED generators
    /\ UNCHANGED engine
    /\ UNCHANGED loggers
    /\ UNCHANGED token_counter
    /\ UNCHANGED llm_call

\* __new__, line 105: if cls._instance is None
NewCheck(t) ==
    /\ pc[t] = "new_check"
    /\ pc' = [pc EXCEPT ![t] = IF telemetry.instance = 0 THEN "new_create" ELSE "new_return"]
    /\ out' = NoOut
    /\ UNCHANGED <<metrics, agent_state, ops, telemetry>>
    /\ UNCHANGED added
    /\ UNCHANGED random_state
    /\ UNCHANGED generators
    /\ UNCHANGED engine
    /\ UNCHANGED loggers
    /\ UNCHANGED token_counter
    /\ UNCHANGED llm_call

\* line 106: cls._instance = super().__new__(cls)
NewCreate(t) ==
    /\ pc[t] = "new_create"
    /\ telemetry' = [telemetry EXCEPT !.objects = Append(@, NewObject),
                                       !.instance = Len(telemetry.objects) + 1]
    /\ pc' = [pc EXCEPT ![t] = "new_return"]
    /\ out' = NoOut
    /\ UNCHANGED <<metrics, agent_state, ops>>
    /\ UNCHANGED added
    /\ UNCHANGED random_state
    /\ UNCHANGED generators
    /\ UNCHANGED engine
    /\ UNCHANGED loggers
    /\ UNCHANGED token_counter
    /\ UNCHANGED llm_call

\* line 107: return cls._instance; __init__ then runs on that object
NewReturn(t) ==
    /\ pc[t] = "new_return"
    /\ telemetry' = [telemetry EXCEPT !.frame[t].self = telemetry.instance]
    /\ pc' = [pc EXCEPT ![t] = "init_check"]
    /\ out' = NoOut
    /\ UNCHANGED <<metrics, agent_state, ops>>
    /\ UNCHANGED added
    /\ UNCHANGED random_state
    /\ UNCHANGED generators
    /\ UNCHANGED engine
    /\ UNCHANGED loggers
    /\ UNCHANGED token_counter
    /\ UNCHANGED llm_call

\* __init__, line 114: if self._initialized: return
SkipsInitNever(o, agent_name, config) == FALSE

SkipsInitForSameIdentity(o, agent_name, config) ==
    o.initialized /\ o.agent_name = agent_name /\ o.config = Get(config, "from_env")

SkipsInit(o, agent_name, config) == o.initialized

\* lines 114-126: the early return, or agent_name, config and the resource
InitCheck(t) ==
    LET f == telemetry.frame[t] IN
    /\ pc[t] = "init_check"
    /\ IF SkipsInit(telemetry.objects[f.self], f.agent_name, f.config)
       THEN /\ pc' = [pc EXCEPT ![t] = "init_return"]
            /\ telemetry' = telemetry
       ELSE /\ pc' = [pc EXCEPT ![t] = "setup_tracing"]
            /\ telemetry' = [telemetry EXCEPT
                               !.objects[f.self].agent_name = f.agent_name,
                               !.objects[f.self].config = Get(f.config, "from_env")]
    /\ out' = NoOut
    /\ UNCHANGED <<metrics, agent_state, ops>>
    /\ UNCHANGED added
    /\ UNCHANGED random_state
    /\ UNCHANGED generators
    /\ UNCHANGED engine
    /\ UNCHANGED loggers
    /\ UNCHANGED token_counter
    /\ UNCHANGED llm_call

\* _setup_tracing: a TracerProvider is built and set, the tracer taken
SetupTracing(t) ==
    LET f == telemetry.frame[t] IN
    /\ pc[t] = "setup_tracing"
    /\ telemetry' = [telemetry EXCEPT !.providers = @ + 1,
                                       !.objects[f.self].tracer = telemetry.providers + 1]
    /\ pc' = [pc EXCEPT ![t] = "setup_metrics"]
    /\ out' = NoOut
    /\ UNCHANGED <<metrics, agent_state, ops>>
    /\ UNCHANGED added
    /\ UNCHANGED random_state
    /\ UNCHANGED generators
    /\ UNCHANGED engine
    /\ UNCHANGED loggers
    /\ UNCHANGED token_counter
    /\ UNCHANGED llm_call

\* _setup_metrics and _create_metrics: a MeterProvider is built and set and
\* the instruments are created anew, with nothing recorded
SetupMetrics(t) ==
    LET f == telemetry.frame[t] IN
    /\ pc[t] = "setup_metrics"
    /\ telemetry' = [telemetry EXCEPT !.objects[f.self].instruments = @ + 1]
    /\ active_operations' = 0
    /\ error_counter' = [n \in OperationNames |-> 0]
    /\ latency_histogram' = [n \in OperationNames |-> 0]
    /\ request_counter' = [b \in BOOLEAN |-> 0]
    /\ added' = NothingAdded
    /\ token_counter' = NoTokens
    /\ pc' = [pc EXCEPT ![t] = "mark_initialized"]
    /\ out' = NoOut
    /\ UNCHANGED <<agent_state, ops>>
    /\ UNCHANGED random_state
    /\ UNCHANGED generators
    /\ UNCHANGED engine
    /\ UNCHANGED loggers
    /\ UNCHANGED llm_call

\* lines 135-137: the propagator, then self._initialized = True
MarkInitialized(t) ==
    LET f == telemetry.frame[t] IN
    /\ pc[t] = "mark_initialized"
    /\ telemetry' = [telemetry EXCEPT !.objects[f.self].propagator = TRUE,
                                       !.objects[f.self].initialized = TRUE]
    /\ pc' = [pc EXCEPT ![t] = "init_return"]
    /\ out' = NoOut
    /\ UNCHANGED <<metrics, agent_state, ops>>
    /\ UNCHANGED added
    /\ UNCHANGED random_state
    /\ UNCHANGED generators
    /\ UNCHANGED engine
    /\ UNCHANGED loggers
    /\ UNCHANGED token_counter
    /\ UNCHANGED llm_call

\* initialize returns the object cls(...) gave
InitializeReturn(t) ==
    /\ pc[t] = "init_return"
    /\ out' = [NoOut EXCEPT !.kind = "initialize", !.by = t,
                            !.instance = telemetry.frame[t].self]
    /\ pc' = [pc EXCEPT ![t] = "idle"]
    /\ UNCHANGED <<metrics, agent_state, ops, telemetry>>
    /\ UNCHANGED added
    /\ UNCHANGED random_state
    /\ UNCHANGED generators
    /\ UNCHANGED engine
    /\ UNCHANGED loggers
    /\ UNCHANGED token_counter
    /\ UNCHANGED llm_call

\* get_instance, line 151: if cls._instance is None
GetInstanceFailsNever(instance) == FALSE

GetInstanceFails(instance) == instance = 0

\* the RuntimeError get_instance raises
NotInitialized == [type |-> "RuntimeError",
                   arg |-> "Telemetry not initialized. Call initialize() first."]

\* AgentTelemetry.get_instance()
GetInstance(t) ==
    /\ pc[t] = "idle"
    /\ out' = IF GetInstanceFails(telemetry.instance)
              THEN [NoOut EXCEPT !.kind = "get_instance", !.by = t, !.error = NotInitialized]
              ELSE [NoOut EXCEPT !.kind = "get_instance", !.by = t,
                                 !.instance = telemetry.instance]
    /\ UNCHANGED <<metrics, agent_state, ops, pc, telemetry>>
    /\ UNCHANGED added
    /\ UNCHANGED random_state
    /\ UNCHANGED generators
    /\ UNCHANGED engine
    /\ UNCHANGED loggers
    /\ UNCHANGED token_counter
    /\ UNCHANGED llm_call

\* record_request(success, application_id) on the instance the caller holds
RecordRequest(t) ==
    /\ pc[t] = "idle"
    /\ telemetry.instance # 0
    /\ telemetry.objects[telemetry.instance].instruments # 0
    /\ \E success \in BOOLEAN :
         /\ request_counter[success] < MaxOps
         /\ request_counter' = [request_counter EXCEPT ![success] = CounterAdd(@, 1)]
         /\ added' = [added EXCEPT ![t].request_counter[success] = @ + 1]
    /\ out' = NoOut
    /\ UNCHANGED <<active_operations, error_counter, latency_histogram, agent_state,
                   ops, pc, telemetry>>
    /\ UNCHANGED random_state
    /\ UNCHANGED generators
    /\ UNCHANGED engine
    /\ UNCHANGED loggers
    /\ UNCHANGED token_counter
    /\ UNCHANGED llm_call

NextTelemetry ==
    \/ \E t \in SequentialThreads : CallInitialize(t)
    \/ \E t \in SequentialThreads : NewCheck(t)
    \/ \E t \in SequentialThreads : NewCreate(t)
    \/ \E t \in SequentialThreads : NewReturn(t)
    \/ \E t \in SequentialThreads : InitCheck(t)
    \/ \E t \in SequentialThreads : SetupTracing(t)
    \/ \E t \in SequentialThreads : SetupMetrics(t)
    \/ \E t \in SequentialThreads : MarkInitialized(t)
    \/ \E t \in SequentialThreads : InitializeReturn(t)
    \/ \E t \in SequentialThreads : GetInstance(t)
    \/ \E t \in SequentialThreads : RecordRequest(t)

SpecTelemetry == InitTelemetry /\ [][NextTelemetry]_vars

\* several threads call initialize on the class as the module defines it,
\* their steps interleaved: no lock guards __new__ or __init__
NextTelemetryConcurrent ==
    \/ \E t \in Threads : CallInitialize(t)
    \/ \E t \in Threads : NewCheck(t)
    \/ \E t \in Threads : NewCreate(t)
    \/ \E t \in Threads : NewReturn(t)
    \/ \E t \in Threads : InitCheck(t)
    \/ \E t \in Threads : SetupTracing(t)
    \/ \E t \in Threads : SetupMetrics(t)
    \/ \E t \in Threads : MarkInitialized(t)
    \/ \E t \in Threads : InitializeReturn(t)

SpecTelemetryConcurrent == InitTelemetry /\ [][NextTelemetryConcurrent]_vars

\* what a failing exporter or provider raises inside _setup_tracing
SetupError == [type |-> "RuntimeError", arg |-> "setup failed"]

\* line 129: _setup_tracing raises.  __init__ and initialize are left by
\* the exception; cls._instance, assigned in __new__, keeps the object,
\* which has neither tracer, instruments nor propagator
SetupTracingFails(t) ==
    /\ pc[t] = "setup_tracing"
    /\ out' = [NoOut EXCEPT !.kind = "initialize", !.by = t, !.error = SetupError]
    /\ pc' = [pc EXCEPT ![t] = "idle"]
    /\ UNCHANGED <<metrics, agent_state, ops, telemetry>>
    /\ UNCHANGED added
    /\ UNCHANGED random_state
    /\ UNCHANGED generators
    /\ UNCHANGED engine
    /\ UNCHANGED loggers
    /\ UNCHANGED token_counter
    /\ UNCHANGED llm_call

\* one thread calls get_instance while another is inside initialize, or
\* after an initialize that failed
NextTelemetryPartial ==
    \/ \E t \in Threads : CallInitialize(t)
    \/ \E t \in Threads : NewCheck(t)
    \/ \E t \in Threads : NewCreate(t)
    \/ \E t \in Threads : NewReturn(t)
    \/ \E t \in Threads : InitCheck(t)
    \/ \E t \in Threads : SetupTracing(t)
    \/ \E t \in Threads : SetupTracingFails(t)
    \/ \E t \in Threads : SetupMetrics(t)
    \/ \E t \in Threads : MarkInitialized(t)
    \/ \E t \in Threads : InitializeReturn(t)
    \/ \E t \in Threads : GetInstance(t)

SpecTelemetryPartial == InitTelemetry /\ [][NextTelemetryPartial]_vars

\* ------------------------------------------------------------------------
\* The AgentLogger on its own: threads call its level methods,
\* operation_start and operation_end, and the sink may fail
\* ------------------------------------------------------------------------
\* debug, info, warning, error, exception
Levels == {"debug", "info", "warning", "error", "exception"}

\* operation names the callers time
TimerNames == {ExecuteTimer, ValidateSpanName}

InitLogger ==
    /\ active_operations = 0
    /\ error_counter = [n \in OperationNames |-> 0]
    /\ latency_histogram = [n \in OperationNames |-> 0]
    /\ request_counter = [b \in BOOLEAN |-> 0]
    /\ operation_starts = [n \in TimerNames |-> Nothing]
    /\ clock = 0
    /\ ops = 0
    /\ spans = [t \in Threads |-> <<>>]
    /\ ctx = [t \in Threads |-> <<>>]
    /\ telemetry = InitializedTelemetry
    /\ added = NothingAdded
    /\ random_state = 0
    /\ generators = NoGenerators
    /\ engine = NoEngine
    /\ loggers = NoLoggers
    /\ token_counter = NoTokens
    /\ llm_call = NoLlmCalls
    /\ pc = [t \in Threads |-> "idle"]
    /\ call = [t \in Threads |-> NoCall]
    /\ exc = [t \in Threads |-> NoExc]
    /\ result = [t \in Threads |-> Nothing]
    /\ out = NoOut

\* debug / info / warning / error / exception (event), lines 122-135
CallLevel(t) ==
    /\ pc[t] = "idle"
    /\ \E level \in Levels, sink \in Sinks :
         out' = Log(t, sink, LogRecord(t, level, "event", "", Nothing))
    /\ UNCHANGED <<metrics, operation_starts, clock, ops, spans, ctx, pc, call, exc,
                   result, telemetry, added>>
    /\ UNCHANGED random_state
    /\ UNCHANGED generators
    /\ UNCHANGED engine
    /\ UNCHANGED loggers
    /\ UNCHANGED token_counter
    /\ UNCHANGED llm_call

\* operation_start(operation), lines 141-142
CallOperationStart(t) ==
    /\ pc[t] = "idle"
    /\ \E operation \in TimerNames, sink \in Sinks :
         /\ operation_starts' = [operation_starts EXCEPT ![operation] = Some(clock)]
         /\ out' = Log(t, sink, LogRecord(t, "info", "operation_start:" \o operation,
                                          "", Nothing))
    /\ UNCHANGED <<metrics, clock, ops, spans, ctx, pc, call, exc, result, telemetry,
                   added>>
    /\ UNCHANGED random_state
    /\ UNCHANGED generators
    /\ UNCHANGED engine
    /\ UNCHANGED loggers
    /\ UNCHANGED token_counter
    /\ UNCHANGED llm_call

\* operation_end(operation) is called
CallOperationEnd(t) ==
    /\ pc[t] = "idle"
    /\ ops < MaxOps
    /\ \E operation \in TimerNames, sink \in Sinks :
         call' = [call EXCEPT ![t] =
                    [NoCall EXCEPT !.op = "operation_end", !.status = "running",
                                   !.timer = operation, !.sink = sink]]
    /\ ops' = ops + 1
    /\ pc' = [pc EXCEPT ![t] = "end_check"]
    /\ exc' = [exc EXCEPT ![t] = NoExc]
    /\ out' = NoOut
    /\ UNCHANGED <<metrics, operation_starts, clock, spans, ctx, result, telemetry,
                   added>>
    /\ UNCHANGED random_state
    /\ UNCHANGED generators
    /\ UNCHANGED engine
    /\ UNCHANGED loggers
    /\ UNCHANGED token_counter
    /\ UNCHANGED llm_call

\* operation_end returns to its caller, or the exception leaves it
LoggerReturn(t) ==
    /\ pc[t] = "logger_return"
    /\ call' = [call EXCEPT ![t].status = Ended(exc[t]), ![t].raised = exc[t]]
    /\ exc' = [exc EXCEPT ![t] = NoExc]
    /\ pc' = [pc EXCEPT ![t] = "idle"]
    /\ out' = out
    /\ UNCHANGED <<metrics, operation_starts, clock, ops, spans, ctx, result, telemetry,
                   added>>
    /\ UNCHANGED random_state
    /\ UNCHANGED generators
    /\ UNCHANGED engine
    /\ UNCHANGED loggers
    /\ UNCHANGED token_counter
    /\ UNCHANGED llm_call

NextLogger ==
    \/ \E t \in Threads : CallLevel(t)
    \/ \E t \in Threads : CallOperationStart(t)
    \/ \E t \in Threads : CallOperationEnd(t)
    \/ \E t \in Threads : OperationEndCheck(t)
    \/ \E t \in Threads : OperationEndRead(t)
    \/ \E t \in Threads : OperationEndDelete(t)
    \/ \E t \in Threads : LoggerReturn(t)
    \/ Tick

SpecLogger == InitLogger /\ [][NextLogger]_vars

\* ------------------------------------------------------------------------
\* Several AgentLogger objects in one process
\* ------------------------------------------------------------------------
\* how many AgentLogger objects are constructed
MaxLoggers == 2

\* an agent field the caller passes among the keyword arguments, or none
CallerAgentFields == {Nothing, Some("caller")}

\* the processor add_agent_context(agent_name) returns, lines 37-43
AgentProcessor(agent_name, event_dict) == [event_dict EXCEPT !.agent = agent_name]

\* AgentLogger.__init__, lines 110-115: configure_logging calls
\* structlog.configure, which replaces the processor chain of the process
\* by one built for agent_name, and returns structlog.get_logger(), a lazy
\* proxy that is bound to a chain when it is first used
NewAgentLogger(t) ==
    /\ pc[t] = "idle"
    /\ Len(loggers.names) < MaxLoggers
    /\ \E agent_name \in AgentNames :
         loggers' = [configured |-> agent_name,
                     names |-> Append(loggers.names, agent_name),
                     bound |-> Append(loggers.bound, "")]
    /\ out' = NoOut
    /\ UNCHANGED <<metrics, operation_starts, clock, ops, spans, ctx, pc, call, exc, result>>
    /\ UNCHANGED telemetry
    /\ UNCHANGED added
    /\ UNCHANGED random_state
    /\ UNCHANGED generators
    /\ UNCHANGED engine
    /\ UNCHANGED token_counter
    /\ UNCHANGED llm_call

\* the processor chain logger i runs: the one it cached at its first use
\* (cache_logger_on_first_use=True), or at that first use the chain
\* configured last
BoundChain(i) ==
    IF loggers.bound[i] = "" THEN loggers.configured ELSE loggers.bound[i]

\* debug / info / warning / error / exception on logger i, lines 117-135,
\* with the processors of lines 69-70 applied in their order
LoggerLevel(t) ==
    /\ pc[t] = "idle"
    /\ \E i \in 1..Len(loggers.names), level \in Levels, agent \in CallerAgentFields :
         /\ loggers' = [loggers EXCEPT !.bound[i] = BoundChain(i)]
         /\ out' = [Logged(t, AddTraceContext(t, AgentProcessor(BoundChain(i),
                        [NoRecord EXCEPT !.level = level, !.event = "event",
                                         !.agent = Get(agent, "")])))
                    EXCEPT !.logger = i]
    /\ UNCHANGED <<metrics, operation_starts, clock, ops, spans, ctx, pc, call, exc, result>>
    /\ UNCHANGED telemetry
    /\ UNCHANGED added
    /\ UNCHANGED random_state
    /\ UNCHANGED generators
    /\ UNCHANGED engine
    /\ UNCHANGED token_counter
    /\ UNCHANGED llm_call

NextLoggers ==
    \/ \E t \in Threads : NewAgentLogger(t)
    \/ \E t \in Threads : LoggerLevel(t)
    \/ \E t \in Threads : ProductionEnter(t)
    \/ \E t \in Threads : ProductionExit(t)

SpecLoggers == Init /\ [][NextLoggers]_vars

\* ------------------------------------------------------------------------
\* AgentTelemetry.record_llm_call
\* ------------------------------------------------------------------------
\* the largest token count of a call
MaxTokens == 2

TokenCounts == 0..MaxTokens

\* lines 328-333: the amount added under each type
LlmAmountTotalIsInput(c, type) ==
    IF type = "output" THEN c.output_tokens ELSE c.input_tokens

LlmAmount(c, type) ==
    CASE type = "total" -> c.input_tokens + c.output_tokens
      [] type = "input" -> c.input_tokens
      [] type = "output" -> c.output_tokens

\* token_counter.add(amount, {"model": model, "type": type}) by thread t
TokenAdd(t, type) ==
    token_counter' = [token_counter EXCEPT ![llm_call[t].model][type] =
                        CounterAdd(@, LlmAmount(llm_call[t], type))]

\* lines 312-326: record_llm_call(model, input_tokens, output_tokens,
\* latency_ms) is called; the attributes go to the current span
RecordLlmCall(t) ==
    /\ pc[t] = "idle"
    /\ ops < MaxOps
    /\ \E model \in Models, input_tokens \in TokenCounts, output_tokens \in TokenCounts :
         llm_call' = [llm_call EXCEPT ![t] =
                        [model |-> model, input_tokens |-> input_tokens,
                         output_tokens |-> output_tokens]]
    /\ ops' = ops + 1
    /\ pc' = [pc EXCEPT ![t] = "llm_total"]
    /\ out' = NoOut
    /\ UNCHANGED <<metrics, operation_starts, clock, spans, ctx, call, exc, result>>
    /\ UNCHANGED telemetry
    /\ UNCHANGED added
    /\ UNCHANGED random_state
    /\ UNCHANGED generators
    /\ UNCHANGED engine
    /\ UNCHANGED loggers
    /\ UNCHANGED token_counter

\* lines 328-331: the add under type "total"
LlmAddTotal(t) ==
    /\ pc[t] = "llm_total"
    /\ TokenAdd(t, "total")
    /\ pc' = [pc EXCEPT ![t] = "llm_input"]
    /\ out' = NoOut
    /\ UNCHANGED <<metrics, operation_starts, clock, ops, spans, ctx, call, exc, result>>
    /\ UNCHANGED telemetry
    /\ UNCHANGED added
    /\ UNCHANGED random_state
    /\ UNCHANGED generators
    /\ UNCHANGED engine
    /\ UNCHANGED loggers
    /\ UNCHANGED llm_call

\* line 332: the add under type "input"
LlmAddInput(t) ==
    /\ pc[t] = "llm_input"
    /\ TokenAdd(t, "input")
    /\ pc' = [pc EXCEPT ![t] = "llm_output"]
    /\ out' = NoOut
    /\ UNCHANGED <<metrics, operation_starts, clock, ops, spans, ctx, call, exc, result>>
    /\ UNCHANGED telemetry
    /\ UNCHANGED added
    /\ UNCHANGED random_state
    /\ UNCHANGED generators
    /\ UNCHANGED engine
    /\ UNCHANGED loggers
    /\ UNCHANGED llm_call

\* line 333: the add under type "output", and the call returns
LlmAddOutput(t) ==
    /\ pc[t] = "llm_output"
    /\ TokenAdd(t, "output")
    /\ llm_call' = [llm_call EXCEPT ![t] = NoLlmCall]
    /\ pc' = [pc EXCEPT ![t] = "idle"]
    /\ out' = NoOut
    /\ UNCHANGED <<metrics, operation_starts, clock, ops, spans, ctx, call, exc, result>>
    /\ UNCHANGED telemetry
    /\ UNCHANGED added
    /\ UNCHANGED random_state
    /\ UNCHANGED generators
    /\ UNCHANGED engine
    /\ UNCHANGED loggers

NextLlm ==
    \/ \E t \in Threads : RecordLlmCall(t)
    \/ \E t \in Threads : LlmAddTotal(t)
    \/ \E t \in Threads : LlmAddInput(t)
    \/ \E t \in Threads : LlmAddOutput(t)

SpecLlm == Init /\ [][NextLlm]_vars

\* ------------------------------------------------------------------------
\* tests/simulation: DatasetGenerator instances sharing the random module
\* ------------------------------------------------------------------------
\* the state of the instrumented agent, which the simulation leaves alone
service_vars == <<active_operations, error_counter, latency_histogram,
                  request_counter, operation_starts, clock, ops, spans, ctx,
                  pc, call, exc, result, out, telemetry, added>>

\* the random module was seeded from the system at import
InitDataset ==
    /\ active_operations = 0
    /\ error_counter = [n \in OperationNames |-> 0]
    /\ latency_histogram = [n \in OperationNames |-> 0]
    /\ request_counter = [b \in BOOLEAN |-> 0]
    /\ operation_starts = [n \in {ExecuteTimer} |-> Nothing]
    /\ clock = 0
    /\ ops = 0
    /\ spans = [t \in Threads |-> <<>>]
    /\ ctx = [t \in Threads |-> <<>>]
    /\ telemetry = FreshTelemetry
    /\ added = NothingAdded
    /\ random_state \in 0..(RngModulus - 1)
    /\ generators = NoGenerators
    /\ engine = NoEngine
    /\ loggers = NoLoggers
    /\ token_counter = NoTokens
    /\ llm_call = NoLlmCalls
    /\ pc = [t \in Threads |-> "idle"]
    /\ call = [t \in Threads |-> NoCall]
    /\ exc = [t \in Threads |-> NoExc]
    /\ result = [t \in Threads |-> Nothing]
    /\ out = NoOut

\* DatasetGenerator(seed): "if seed is not None: random.seed(seed)"
NewDatasetGenerator(g, seed) ==
    /\ ~generators[g].constructed
    /\ random_state' = IF seed # Nothing THEN RandomSeed(seed[1])
                       ELSE random_state
    /\ generators' = [generators EXCEPT
                         ![g] = [NoGenerator EXCEPT !.seed = seed,
                                                    !.constructed = TRUE]]
    /\ UNCHANGED <<service_vars, engine>>
    /\ UNCHANGED loggers
    /\ UNCHANGED token_counter
    /\ UNCHANGED llm_call

\* generator.generate_dataset(n); every generate_one calls _generate_id twice
GenerateDataset(g, n) ==
    /\ generators[g].constructed
    /\ generators[g].dataset = Nothing
    /\ \E uuids \in [1..n -> UuidValues] :
          LET made == GenerateDatasetFrom(random_state, n, uuids)
          IN  /\ random_state' = made.state
              /\ generators' = [generators EXCEPT
                                   ![g].counter = @ + 2 * n,
                                   ![g].n = n,
                                   ![g].dataset = Some(made.dataset)]
    /\ UNCHANGED <<service_vars, engine>>
    /\ UNCHANGED loggers
    /\ UNCHANGED token_counter
    /\ UNCHANGED llm_call

NextDataset ==
    \/ \E g \in Generators, seed \in {Nothing} \cup {Some(s) : s \in Seeds} :
          NewDatasetGenerator(g, seed)
    \/ \E g \in Generators, n \in 0..MaxN : GenerateDataset(g, n)

SpecDataset == InitDataset /\ [][NextDataset]_vars

\* ------------------------------------------------------------------------
\* tests/simulation: SimulationEngine.run
\* ------------------------------------------------------------------------
\* SimulationEngine(config)
NewEngine(n, seed, dry_run) ==
    /\ ~engine.constructed
    /\ engine' = [NoEngine EXCEPT !.constructed = TRUE, !.n_requests = n,
                                  !.seed = seed, !.dry_run = dry_run]
    /\ UNCHANGED <<service_vars, random_state, generators>>
    /\ UNCHANGED loggers
    /\ UNCHANGED token_counter
    /\ UNCHANGED llm_call

\* run(), up to the loop: DatasetGenerator(seed=self.config.seed) and
\* generate_dataset(n=self.config.n_requests)
RunStart ==
    /\ engine.constructed
    /\ engine.pc = "idle"
    /\ engine.runs < MaxRuns
    /\ \E uuids \in [1..engine.n_requests -> UuidValues] :
          LET made == GenerateDatasetFrom(RandomSeed(engine.seed),
                                          engine.n_requests, uuids)
          IN  /\ random_state' = made.state
              /\ engine' = [engine EXCEPT !.dataset = made.dataset, !.i = 1,
                                          !.pc = "loop", !.report = Nothing]
    /\ UNCHANGED <<service_vars, generators>>
    /\ UNCHANGED loggers
    /\ UNCHANGED token_counter
    /\ UNCHANGED llm_call

\* one turn of "for i, app in enumerate(dataset)": _process_one(app) and
\* self.results.append(result); the mock draws twice from the random module
\* and always answers
ProcessOne(outcome) ==
    /\ engine.pc = "loop"
    /\ engine.i <= Len(engine.dataset)
    /\ engine.dry_run => outcome.success
    /\ engine' = [engine EXCEPT
                     !.results = Append(@, ProcessOneResult(engine.dataset[engine.i],
                                                            outcome)),
                     !.i = @ + 1]
    /\ random_state' = IF engine.dry_run THEN RandomAdvanceBy(random_state, 2)
                       ELSE random_state
    /\ UNCHANGED <<service_vars, generators>>
    /\ UNCHANGED loggers
    /\ UNCHANGED token_counter
    /\ UNCHANGED llm_call

\* run(), after the loop: return self._generate_report(duration)
RunReport ==
    /\ engine.pc = "loop"
    /\ engine.i > Len(engine.dataset)
    /\ engine' = [engine EXCEPT !.report = Some(GenerateReport(engine.results)),
                                !.pc = "idle", !.runs = @ + 1]
    /\ UNCHANGED <<service_vars, random_state, generators>>
    /\ UNCHANGED loggers
    /\ UNCHANGED token_counter
    /\ UNCHANGED llm_call

NextSimulation ==
    \/ \E n \in 0..MaxN, seed \in Seeds, dry_run \in BOOLEAN :
          NewEngine(n, seed, dry_run)
    \/ RunStart
    \/ \E outcome \in PipelineOutcomes : ProcessOne(outcome)
    \/ RunReport

SpecSimulation == InitDataset /\ [][NextSimulation]_vars

\* ------------------------------------------------------------------------
\* Properties
\* ------------------------------------------------------------------------
Returned(t) == call[t].status = "returned"

Failed(t) == result[t] # Nothing /\ ~result[t][1].success

Succeeded(t) == result[t] # Nothing /\ result[t][1].success

\* no thread is making a call or holds a scope open
AllIdle == \A t \in Threads : pc[t] = "idle" /\ ctx[t] = <<>>

\* the failure the validator or the core logic produced in a call
FailureOf(c) ==
    CASE c.validator = "false" -> ValidationError
      [] c.validator = "raise" -> ValidatorRaised
      [] c.core = "raise" -> CoreRaised
      [] OTHER -> NoExc

\* the span consume_and_process opened for the message of thread t
ConsumerSpan(t) == spans[t][call[t].outer + 1]

WellFormedResult(r) ==
    /\ r.success \in BOOLEAN
    /\ r.success => r.data # Nothing /\ r.error = Nothing
    /\ ~r.success => r.data = Nothing /\ r.error # Nothing
    /\ r.latency_ms >= 0

\* C1: whenever no execute or consume_and_process call is in progress and
\* no scope is open, the in-flight gauge is zero, whatever the calls made
\* so far ended with
C1_GaugeZeroWhenIdle == AllIdle => active_operations = 0

C1_Witness ==
    /\ AllIdle
    /\ \E t, u \in Threads :
         /\ Returned(t) /\ Succeeded(t)
         /\ Returned(u) /\ Failed(u)
    /\ active_operations = 0

\* C2: no call ends by raising, and a call in which the validator returned
\* false or raised, or the core logic raised, returns the failed envelope
\* whose error is the description of that failure
C2_FailuresContained ==
    \A t \in Threads :
        /\ call[t].status # "raised"
        /\ (Returned(t) /\ FailureOf(call[t]) # NoExc) =>
              /\ Failed(t)
              /\ result[t][1].error = Some(Str(FailureOf(call[t])))

C2_Witness ==
    \E t \in Threads :
        /\ Returned(t) /\ call[t].validator = "raise"
        /\ Failed(t) /\ result[t][1].error = Some("bad input")

\* C3: in every AgentResult, success implies a null error and failure
\* implies null data
C3_EnvelopeShape ==
    \A t \in Threads :
        result[t] # Nothing =>
            /\ result[t][1].success => result[t][1].error = Nothing
            /\ ~result[t][1].success => result[t][1].data = Nothing

C3_Witness ==
    \E t, u \in Threads :
        /\ Returned(t) /\ Succeeded(t) /\ result[t][1].data # Nothing
        /\ Returned(u) /\ Failed(u) /\ call[u].payload # Nothing

\* the value of the error counter over all its operation tags
ErrorCount ==
    error_counter[ExecuteSpanName] + error_counter[ValidateSpanName]
    + error_counter[ConsumeSpanName] + error_counter[ProduceSpanName]

\* C4: when the validator returned true and the core logic raised, execute
\* returns the failed envelope and the error counter has grown by exactly 1
\* during the call (stated for the first call of a run, the counter
\* starting at 0)
C4_ErrorCountedOnCoreFailure ==
    \A t \in Threads :
        (ops = 1 /\ Returned(t) /\ call[t].validator = "true" /\ call[t].core = "raise") =>
            /\ Failed(t)
            /\ result[t][1].error = Some(Str(CoreRaised))
            /\ ErrorCount = 1

\* C5: when the validator returns false, execute returns the failed
\* envelope with error "Input validation failed" and a non-negative
\* latency, and the core logic is not invoked in that execution
C5_ValidationFailure ==
    \A t \in Threads :
        call[t].validator = "false" =>
            /\ call[t].core_calls = 0
            /\ Returned(t) =>
                  /\ Failed(t)
                  /\ result[t][1].error = Some("Input validation failed")
                  /\ result[t][1].latency_ms >= 0

C5_Witness ==
    \E t \in Threads :
        /\ Returned(t) /\ call[t].validator = "false"
        /\ Failed(t) /\ result[t][1].latency_ms > 0

\* C6: when a trace_operation scope is left by an exception, its span gets
\* status error with the exception's description, the error counter grows
\* by exactly 1 under the operation's name and under no other, the
\* histogram gets exactly one sample, the gauge is decremented, and the
\* same exception stays in flight
C6_ScopeLeftByFailure ==
    [][\A t \in Threads :
        (Len(ctx'[t]) < Len(ctx[t]) /\ exc[t] # NoExc) =>
            LET s == CurrentSpan(t)
                name == spans[t][s].name
            IN /\ spans'[t][s].status = "error"
               /\ spans'[t][s].description = Str(exc[t])
               /\ error_counter' = [error_counter EXCEPT ![name] = @ + 1]
               /\ latency_histogram' = [latency_histogram EXCEPT ![name] = @ + 1]
               /\ active_operations' = active_operations - 1
               /\ exc'[t] = exc[t]]_vars

C6_Witness ==
    \E t \in Threads :
        /\ pc[t] = "except" /\ exc[t] = ValidationError
        /\ spans[t][Len(spans[t])].name = ValidateSpanName
        /\ spans[t][Len(spans[t])].status = "error"
        /\ spans[t][Len(spans[t])].description = "Input validation failed"
        /\ error_counter[ValidateSpanName] > 0

\* C7: the headers prepare_output_message returns always hold a valid
\* traceparent entry and an x-application-id entry
C7_OutputHeadersComplete ==
    out.kind = "prepare" =>
        /\ out.headers.traceparent # Nothing
        /\ TraceparentAccepted(out.headers.traceparent[1])
        /\ out.headers.xapp # Nothing

\* C8: injecting the current span context into an empty carrier and
\* extracting from that carrier yields a context with the same trace id
C8_RoundTrip ==
    (out.kind = "roundtrip" /\ IsValidSpanContext(out.current)) =>
        out.context.trace_id = out.current.trace_id

C8_Witness ==
    /\ out.kind = "roundtrip"
    /\ out.current.trace_id = 2147483647
    /\ out.context.trace_id = 2147483647
    /\ out.headers.traceparent # Nothing

\* headers that name no parent: absent, empty, or with no acceptable
\* traceparent entry
Unparented(headers) ==
    \/ headers = Nothing
    \/ headers[1] = EmptyCarrier
    \/ headers[1] \in MalformedCarriers
    \/ headers[1].traceparent = Nothing

\* C9 as claimed: for an absent, empty or malformed carrier the span
\* opened for the message starts a fresh root trace and processing proceeds
C9_UnparentedStartsRoot ==
    \A t \in Threads :
        (call[t].op = "consume" /\ Unparented(call[t].headers)) =>
            /\ call[t].status # "raised"
            /\ ConsumerSpan(t).parent_id = 0

\* C9 amended: extraction from an empty or malformed carrier yields the
\* no-parent context and never fails the call; the span opened for a
\* message with a malformed carrier is a fresh root; for absent or empty
\* headers nothing is extracted and the span is a fresh root when the
\* calling thread has no current span, a child of the current span otherwise
C9_UnparentedStartsRootUnlessNested ==
    /\ \A c \in MalformedCarriers \cup {EmptyCarrier} : ExtractContext(c) = InvalidSpanContext
    /\ \A t \in Threads :
        (call[t].op = "consume" /\ Unparented(call[t].headers)) =>
            LET sp == ConsumerSpan(t)
                extracted == call[t].headers # Nothing /\ CarrierTruthy(call[t].headers[1])
            IN /\ call[t].status # "raised"
               /\ Returned(t) => result[t] # Nothing
               /\ (extracted \/ call[t].outer = 0) =>
                     /\ sp.parent_id = 0
                     /\ sp.trace_id = RootTraceId(sp.span_id)
               /\ (~extracted /\ call[t].outer # 0) =>
                     /\ sp.parent_id = spans[t][call[t].outer].span_id
                     /\ sp.trace_id = spans[t][call[t].outer].trace_id

C9_Witness ==
    \E t \in Threads :
        /\ call[t].op = "consume" /\ Returned(t)
        /\ call[t].headers # Nothing /\ call[t].headers[1] \in MalformedCarriers
        /\ call[t].outer # 0
        /\ ConsumerSpan(t).parent_id = 0
        /\ result[t] # Nothing

\* C10 as claimed: consume_and_process with empty headers gives a consumer
\* span without parent and returns a well-formed envelope
C10_EmptyHeadersRoot ==
    \A t \in Threads :
        (call[t].op = "consume" /\ call[t].headers = Some(EmptyCarrier) /\ Returned(t)) =>
            /\ ConsumerSpan(t).parent_id = 0
            /\ result[t] # Nothing /\ WellFormedResult(result[t][1])

\* C10 amended: consume_and_process with empty headers returns a
\* well-formed envelope; its consumer span is a root when the calling
\* thread has no current span, and the child of that span otherwise
C10_EmptyHeadersRootUnlessNested ==
    \A t \in Threads :
        (call[t].op = "consume" /\ call[t].headers = Some(EmptyCarrier) /\ Returned(t)) =>
            /\ result[t] # Nothing /\ WellFormedResult(result[t][1])
            /\ call[t].outer = 0 =>
                  /\ ConsumerSpan(t).parent_id = 0
                  /\ ConsumerSpan(t).trace_id = RootTraceId(ConsumerSpan(t).span_id)
            /\ call[t].outer # 0 =>
                  /\ ConsumerSpan(t).parent_id = spans[t][call[t].outer].span_id
                  /\ ConsumerSpan(t).trace_id = spans[t][call[t].outer].trace_id

C10_Witness ==
    \E t \in Threads :
        /\ call[t].op = "consume" /\ call[t].headers = Some(EmptyCarrier) /\ Returned(t)
        /\ call[t].outer = 0
        /\ ConsumerSpan(t).parent_id = 0
        /\ Succeeded(t)

\* positions of a thread inside AgentTelemetry.initialize
InitializeSteps ==
    {"new_check", "new_create", "new_return", "init_check", "setup_tracing",
     "setup_metrics", "mark_initialized", "init_return"}

\* an initialize call has completed: the class holds an initialized instance
InitializeCompleted ==
    /\ telemetry.instance # 0
    /\ telemetry.objects[telemetry.instance].initialized

\* a step of thread t inside initialize keeps the instance, its providers
\* and instruments and every value recorded, and returns that instance
KeepsInstance(t) ==
    /\ telemetry'.instance = telemetry.instance
    /\ telemetry'.objects = telemetry.objects
    /\ telemetry'.providers = telemetry.providers
    /\ metrics' = metrics
    /\ pc'[t] = "idle" => out'.instance = telemetry.instance /\ out'.error = NoExc

\* C11: initialize is idempotent: a call made after a completed call, with
\* the same agent name, returns the same instance, re-creates no provider
\* and no instrument, and keeps every counter, histogram and gauge value
C11_InitializeIdempotent ==
    [][\A t \in Threads :
         (/\ pc[t] \in InitializeSteps
          /\ InitializeCompleted
          /\ telemetry.frame[t].agent_name =
                telemetry.objects[telemetry.instance].agent_name
          /\ pc'[t] # pc[t])
         => KeepsInstance(t)]_vars

C11_Witness ==
    \E t \in Threads :
        /\ out.kind = "initialize" /\ out.by = t /\ ops = 2
        /\ out.instance = 1
        /\ telemetry.frame[t].agent_name = telemetry.objects[1].agent_name
        /\ telemetry.objects[1].instruments = 1
        /\ telemetry.providers = 1
        /\ request_counter[TRUE] = 2 /\ request_counter[FALSE] = 1

\* C12: initialize called after initialization with another agent name or
\* another config returns the initialized instance and leaves its agent
\* name, config, tracer, propagator and instruments as they were
C12_OtherIdentityIgnored ==
    [][\A t \in Threads :
         (/\ pc[t] \in InitializeSteps
          /\ InitializeCompleted
          /\ \/ telemetry.frame[t].agent_name #
                   telemetry.objects[telemetry.instance].agent_name
             \/ Get(telemetry.frame[t].config, "from_env") #
                   telemetry.objects[telemetry.instance].config
          /\ pc'[t] # pc[t])
         => KeepsInstance(t)]_vars

C12_Witness ==
    \E t \in Threads :
        /\ out.kind = "initialize" /\ out.by = t /\ ops = 2
        /\ out.instance = 1
        /\ telemetry.frame[t].agent_name = "agent-intake"
        /\ telemetry.frame[t].config = Some("custom")
        /\ telemetry.objects[1] =
             [initialized |-> TRUE, agent_name |-> AgentNameValue, config |-> "from_env",
              tracer |-> 1, instruments |-> 1, propagator |-> TRUE]

\* C13: get_instance fails with the not-initialized error and gives no
\* instance when initialize was never called; after a completed initialize
\* it returns the instance initialize returned
C13_GetInstance ==
    \A t \in Threads :
        (out.kind = "get_instance" /\ out.by = t) =>
            /\ ops = 0 => out.error = NotInitialized /\ out.instance = 0
            /\ InitializeCompleted =>
                  /\ out.error = NoExc
                  /\ out.instance = telemetry.frame[t].self
                  /\ out.instance = telemetry.instance

C13_Witness ==
    /\ out.kind = "get_instance"
    /\ InitializeCompleted
    /\ out.instance = 1 /\ out.error = NoExc

\* the record carries the trace id and the span id of span sp
CarriesSpan(record, sp) ==
    /\ record.trace_id = Some(FormatHex(sp.trace_id, TraceIdHexLen))
    /\ record.span_id = Some(FormatHex(sp.span_id, SpanIdHexLen))

\* the spans the call thread t is making has opened so far
SpansOfCall(t) == { spans[t][i] : i \in (call[t].outer + 1)..Len(spans[t]) }

\* C14: concurrent executions with distinct application ids do not
\* cross-contaminate: a record logged by an execution names that
\* execution's application and carries the trace id and span id of a span
\* that execution opened, never those of a span of another thread
C14_NoCrossContamination ==
    \A t \in Threads :
        (out.kind = "log" /\ out.by = t) =>
            /\ out.record.application_id = WorkerApplicationIds[t]
            /\ \E sp \in SpansOfCall(t) : CarriesSpan(out.record, sp)
            /\ \A u \in Threads \ {t} :
                 \A j \in 1..Len(spans[u]) : ~CarriesSpan(out.record, spans[u][j])

C14_Witness ==
    \E t \in Threads, u \in Threads :
        /\ t # u
        /\ out.kind = "log" /\ out.by = t
        /\ out.record.event = "operation_end:execute"
        /\ call[t].op = "execute" /\ call[u].op = "execute"
        /\ pc[u] \notin {"idle"} /\ CurrentSpan(u) # 0
        /\ spans[u][CurrentSpan(u)].name = ExecuteSpanName
        /\ CarriesSpan(out.record, spans[t][CurrentSpan(t)])
        /\ call[t].context.application_id # call[u].context.application_id

\* the sum of amount[t] over the threads in S
RECURSIVE SumOver(_, _)
SumOver(S, amount) ==
    IF S = {} THEN 0
    ELSE LET t == CHOOSE u \in S : TRUE
         IN amount[t] + SumOver(S \ {t}, amount)

C16_LevelMethodsNeverRaise ==
    out.kind # "log_raised"

\* C17: operation_end(name) called while no start is stored for name logs
\* a record with duration_ms = None and raises no KeyError; with a sink
\* that takes the record the call returns normally
C17_EndWithoutStart ==
    [][\A t \in Threads :
         (/\ pc[t] = "end_check"
          /\ operation_starts[call[t].timer] = Nothing
          /\ pc'[t] # pc[t])
         => /\ exc'[t] \in {NoExc, SinkError}
            /\ out'.kind = "log" => /\ out'.by = t
                                    /\ out'.record.event = OperationEndEvent(call[t].timer)
                                    /\ out'.record.duration_ms = Nothing
            /\ call[t].sink = "ok" =>
                  /\ out'.kind = "log"
                  /\ exc'[t] = NoExc
                  /\ pc'[t] = AfterOperationEnd(call[t], NoExc)
            /\ operation_starts' = operation_starts]_vars

C17_Witness ==
    \E t \in Threads :
        /\ call[t].op = "operation_end" /\ call[t].status = "returned"
        /\ call[t].sink = "ok"
        /\ ops = 2
        /\ out.kind = "log" /\ out.by = t
        /\ out.record.event = OperationEndEvent(call[t].timer)
        /\ out.record.duration_ms = Nothing
        /\ \E n \in TimerNames : n # call[t].timer /\ operation_starts[n] # Nothing

\* ------------------------------------------------------------------------
\* Dataset generation and the seed
\* ------------------------------------------------------------------------
\* generators g and h were constructed with the same seed and each generated
\* a dataset for the same n
SameSeedSameN(g, h) ==
    /\ g # h
    /\ generators[g].seed # Nothing
    /\ generators[g].seed = generators[h].seed
    /\ generators[g].dataset # Nothing
    /\ generators[h].dataset # Nothing
    /\ generators[g].n = generators[h].n

EqualIds(g, h) ==
    \A i \in 1..generators[g].n :
        generators[g].dataset[1][i].application_id
            = generators[h].dataset[1][i].application_id

EqualAmounts(g, h) ==
    \A i \in 1..generators[g].n :
        generators[g].dataset[1][i].amount_requested
            = generators[h].dataset[1][i].amount_requested

\* C18: two DatasetGenerator instances constructed with the same seed
\* produce, for the same n, datasets whose i-th applications have equal
\* application_id and equal amount_requested.
C18_DeterministicInSeed ==
    \A g, h \in Generators :
        SameSeedSameN(g, h) => EqualIds(g, h) /\ EqualAmounts(g, h)

\* the amounts alone, which come from the seeded random module
AmountsDeterministicInSeed ==
    \A g, h \in Generators : SameSeedSameN(g, h) => EqualAmounts(g, h)

\* ------------------------------------------------------------------------
\* SimulationEngine.run and its report
\* ------------------------------------------------------------------------
\* run() returned a report
Reported == engine.report # Nothing

\* C19: SimulationEngine.run processes every generated request exactly once:
\* the report has total_requests equal to the configured n_requests and
\* successful_requests + failed_requests equal to total_requests (a failure
\* of the pipeline for one request being one failed result among them).
C19_EveryRequestOnce ==
    Reported =>
        /\ engine.report[1].total_requests = engine.n_requests
        /\ engine.report[1].successful_requests
               + engine.report[1].failed_requests
           = engine.report[1].total_requests

\* the counts of a report add up, whatever the run
ReportCountsAddUp ==
    Reported =>
        engine.report[1].successful_requests + engine.report[1].failed_requests
            = engine.report[1].total_requests

\* the report of the first run made on an engine covers each request once
FirstRunCoversEveryRequest ==
    (Reported /\ engine.runs = 1) =>
        /\ engine.report[1].total_requests = engine.n_requests
        /\ \A i \in 1..engine.n_requests :
               engine.results[i].application_id
                   = engine.dataset[i].application_id

\* an exception or an unsuccessful response for one request adds one failed
\* result and leaves the loop running
FailureDoesNotAbort ==
    [][(engine.pc = "loop" /\ engine'.i = engine.i + 1)
          => /\ Len(engine'.results) = Len(engine.results) + 1
             /\ engine'.pc = "loop"
             /\ engine'.results[Len(engine'.results)].application_id
                    = engine.dataset[engine.i].application_id]_vars

\* ------------------------------------------------------------------------
\* The scope's cleanup on every exit path
\* ------------------------------------------------------------------------
\* the positions in spans[t] of the scopes thread t has open
OpenScopes(t) == {ctx[t][i] : i \in 1..Len(ctx[t])}

\* C20: every trace_operation scope whose body was entered decrements the
\* gauge exactly once and closes its span on every exit path of the body
\* (normal return, an escaping failure, external cancellation): a thread's
\* net additions to the gauge equal the number of scopes it has open, and
\* its spans that are not ended are those of its open scopes.
C20_CleanupOnEveryExit ==
    \A t \in Threads :
        /\ added[t].active_operations = Len(ctx[t])
        /\ \A i \in 1..Len(spans[t]) :
               spans[t][i].ended <=> i \notin OpenScopes(t)

\* a consumed message was cancelled inside the validator: the three nested
\* scopes were left by the cancellation and everything was released
C20_Witness ==
    \E t \in Threads :
        /\ pc[t] = "idle"
        /\ ctx[t] = <<>>
        /\ call[t].op = "consume"
        /\ call[t].status = "raised"
        /\ exc[t] = Cancelled
        /\ Len(spans[t]) = 3
        /\ \A i \in 1..3 : spans[t][i].ended
        /\ active_operations = 0

\* ------------------------------------------------------------------------
\* The state machine of one execution
\* ------------------------------------------------------------------------
\* the state of the execution thread t is making or made last: CREATED up to
\* the call of the validator, VALIDATING while the validate_input scope is
\* open or its failure is in flight, EXECUTING from there to the envelope
ExecutionState(t) ==
    CASE call[t].op \notin {"execute", "consume"} -> "NONE"
      [] pc[t] = "consume_body" -> "NONE"
      [] pc[t] \in {"operation_start", "validate"} -> "CREATED"
      [] pc[t] = "validate_exit" -> "VALIDATING"
      [] pc[t] = "except" /\ call[t].core_calls = 0 -> "VALIDATING"
      [] pc[t] = "except" -> "EXECUTING"
      [] pc[t] \in ExecuteBody -> "EXECUTING"
      [] result[t] # Nothing ->
             IF result[t][1].success THEN "SUCCEEDED" ELSE "FAILED"
      [] OTHER -> "NONE"

TerminalStates == {"SUCCEEDED", "FAILED"}

\* the moves of the machine, those of a later call on the same thread
\* starting a new instance of it
ExecutionTransitions ==
    {<<"NONE", "CREATED">>, <<"CREATED", "VALIDATING">>,
     <<"VALIDATING", "EXECUTING">>, <<"VALIDATING", "FAILED">>,
     <<"EXECUTING", "SUCCEEDED">>, <<"EXECUTING", "FAILED">>,
     <<"SUCCEEDED", "CREATED">>, <<"FAILED", "CREATED">>,
     <<"SUCCEEDED", "NONE">>, <<"FAILED", "NONE">>}

\* C21: each call to execute follows CREATED -> VALIDATING -> EXECUTING ->
\* (SUCCEEDED | FAILED) without re-entry: the validator is invoked exactly
\* once and before the core logic, the core logic at most once and only
\* after the validator returned true, and the terminal state reached is
\* left only by a new call, its envelope unchanged until then.
C21_ExecutionStateMachine ==
    [][\A t \in Threads :
         LET before == ExecutionState(t)
             after == ExecutionState(t)'
         IN  /\ before # after => <<before, after>> \in ExecutionTransitions
             /\ call'[t].validator_calls = call[t].validator_calls + 1 =>
                   /\ before = "CREATED" /\ after = "VALIDATING"
                   /\ call[t].validator_calls = 0
                   /\ call[t].core_calls = 0
             /\ call'[t].core_calls = call[t].core_calls + 1 =>
                   /\ before = "EXECUTING"
                   /\ call[t].core_calls = 0
                   /\ call[t].validator_calls = 1
                   /\ call[t].validator = "true"
             /\ (before \notin TerminalStates /\ after \in TerminalStates) =>
                   /\ call'[t].validator_calls = 1
                   /\ call'[t].core_calls <= 1
                   /\ after = "SUCCEEDED" => call'[t].core_calls = 1
             /\ (before \in TerminalStates /\ after \in TerminalStates) =>
                   /\ after = before
                   /\ result'[t] = result[t]
                   /\ call'[t].validator_calls = call[t].validator_calls
                   /\ call'[t].core_calls = call[t].core_calls
             /\ (before \in TerminalStates /\ after \notin TerminalStates) =>
                   call'[t].validator_calls = 0 /\ call'[t].core_calls = 0]_vars

\* one thread has left the machine in SUCCEEDED and the other in FAILED
\* without the core logic having run
C21_Witness ==
    \E t, u \in Threads :
        /\ pc[t] = "idle" /\ ExecutionState(t) = "SUCCEEDED"
        /\ call[t].validator_calls = 1 /\ call[t].core_calls = 1
        /\ pc[u] = "idle" /\ ExecutionState(u) = "FAILED"
        /\ call[u].validator_calls = 1 /\ call[u].core_calls = 0

\* a thread inside execute goes on running its code
ExecuteStep(t) ==
    \/ OperationStart(t) \/ Validate(t) \/ ValidateExit(t) \/ CoreCall(t)
    \/ OperationEndCheck(t) \/ OperationEndRead(t) \/ OperationEndDelete(t)
    \/ RecordSuccess(t) \/ HandleFailure(t) \/ ExecuteExit(t)

\* one thread calls execute again and again while the clock advances, and
\* a call that can take a step eventually takes one: the validator and the
\* core logic terminate and the interpreter keeps running the thread
NextExecute ==
    \/ \E t \in SequentialThreads : StartExecute(t, Messages, {Nothing})
    \/ \E t \in SequentialThreads : OperationStart(t)
    \/ \E t \in SequentialThreads : Validate(t)
    \/ \E t \in SequentialThreads : ValidateExit(t)
    \/ \E t \in SequentialThreads : CoreCall(t)
    \/ \E t \in SequentialThreads : OperationEndCheck(t)
    \/ \E t \in SequentialThreads : OperationEndRead(t)
    \/ \E t \in SequentialThreads : OperationEndDelete(t)
    \/ \E t \in SequentialThreads : RecordSuccess(t)
    \/ \E t \in SequentialThreads : HandleFailure(t)
    \/ \E t \in SequentialThreads : ExecuteExit(t)
    \/ Tick

SpecExecuteFair ==
    Init /\ [][NextExecute]_vars /\ \A t \in SequentialThreads : WF_vars(ExecuteStep(t))

SpecSequentialFair ==
    SpecSequential /\ \A t \in SequentialThreads : WF_vars(ExecuteStep(t))

\* every execution that was started reaches a terminal state
ExecutionTerminates ==
    \A t \in SequentialThreads :
        (ExecutionState(t) \in {"CREATED", "VALIDATING", "EXECUTING"})
            ~> (ExecutionState(t) \in TerminalStates)

\* ------------------------------------------------------------------------
\* The trace across the hop
\* ------------------------------------------------------------------------
\* the call thread t made last consumed a message whose headers hold the
\* valid carrier of the upstream trace
ConsumedValidCarrier(t) ==
    call[t].op = "consume" /\ call[t].headers = Some(ValidCarrier)

\* C22: for a message consumed by consume_and_process with a carrier of
\* trace-id T, the outbound message prepare_output_message builds from the
\* returned result and the execution context carries a carrier whose
\* trace-id is T.
C22_TraceContinuity ==
    \A t \in Threads :
        (out.kind = "prepare" /\ out.by = t /\ ConsumedValidCarrier(t)) =>
            /\ out.headers.traceparent # Nothing
            /\ ExtractContext(out.headers).trace_id = RemoteParent.trace_id

\* the spans opened during the call thread t made last, the consumer span
\* first
SpansOfConsume(t) == SubSeq(spans[t], call[t].outer + 1, Len(spans[t]))

\* C23: when consume_and_process receives headers carrying a valid carrier
\* with trace-id T, the consumer span has the carrier's span as parent, and
\* the consumer span, the <agent>.execute span and the validate_input span
\* opened during that call all have trace-id T.
C23_ConsumerContinuesTrace ==
    \A t \in Threads :
        ConsumedValidCarrier(t) =>
            LET opened == SpansOfConsume(t) IN
            /\ opened[1].name = ConsumeSpanName
            /\ opened[1].parent_id = RemoteParent.span_id
            /\ \A i \in 1..Len(opened) :
                   /\ opened[i].trace_id = RemoteParent.trace_id
                   /\ i > 1 => opened[i].parent_id = opened[i - 1].span_id
            /\ Len(opened) >= 2 => opened[2].name = ExecuteSpanName
            /\ Len(opened) >= 3 => opened[3].name = ValidateSpanName

\* a message with the valid carrier was consumed inside a scope of the
\* caller, which has a trace of its own, and the call has returned with
\* its three spans
C23_Witness ==
    \E t \in Threads :
        /\ ConsumedValidCarrier(t)
        /\ Returned(t)
        /\ call[t].outer = 1
        /\ spans[t][1].trace_id # RemoteParent.trace_id
        /\ Len(SpansOfConsume(t)) = 3

\* ------------------------------------------------------------------------
\* Concurrent first calls to initialize
\* ------------------------------------------------------------------------
\* C24: when several threads make the first call to initialize
\* concurrently, the provider chain and the instruments are constructed
\* exactly once and every caller receives the same fully constructed
\* instance, under every interleaving.
C24_ConcurrentInitializeOnce ==
    /\ Len(telemetry.objects) <= 1
    /\ telemetry.providers <= 1
    /\ \A i \in 1..Len(telemetry.objects) : telemetry.objects[i].instruments <= 1
    /\ out.kind = "initialize" =>
          /\ out.instance = 1
          /\ telemetry.objects[out.instance].initialized

\* the provider chain alone: built at most once
ProvidersBuiltOnce == telemetry.providers <= 1

\* ------------------------------------------------------------------------
\* The logger's timer entry shared by concurrent executions
\* ------------------------------------------------------------------------
\* C25: for any interleaving of concurrent execute calls on one agent whose
\* validator returns true and whose core logic returns normally, every
\* call returns success=true.
C25_SharedTimerKeepsSuccess ==
    \A t \in Threads :
        (Returned(t) /\ call[t].validator = "true" /\ call[t].core = "return") =>
            Succeeded(t)

\* ------------------------------------------------------------------------
\* The business outcome and the logging sink
\* ------------------------------------------------------------------------
\* the execute call of thread t is over
ExecuteOver(t) == call[t].op = "execute" /\ call[t].status \in {"returned", "raised"}

\* C26: a failure of the logging sink during execute never changes the
\* business outcome: if validation and core logic succeed, execute still
\* returns success=true with the payload; if they fail, it still returns
\* the failed envelope carrying the original error; and no logging failure
\* escapes execute.
C26_SinkFailureKeepsOutcome ==
    \A t \in Threads :
        ExecuteOver(t) =>
            /\ call[t].status = "returned"
            /\ (call[t].validator = "true" /\ call[t].core = "return") =>
                  /\ Succeeded(t)
                  /\ result[t][1].data = Some(SerializeResult(call[t].payload[1]))
            /\ FailureOf(call[t]) # NoExc =>
                  /\ Failed(t)
                  /\ result[t][1].error = Some(Str(FailureOf(call[t])))

\* the part of it that holds: no sink failure turns a failed execution
\* into a successful one
SinkFailureNeverSucceedsFailed ==
    \A t \in Threads :
        (ExecuteOver(t) /\ FailureOf(call[t]) # NoExc) => ~Succeeded(t)

\* ------------------------------------------------------------------------
\* One request metric per execution
\* ------------------------------------------------------------------------
\* C27: each call to execute that returns records exactly one request
\* metric, and its success tag equals the success flag of the returned
\* envelope, also when a step after the core logic (logging the operation
\* end, serializing the payload) fails.
C27_OneRequestMetricPerExecute ==
    \A t \in Threads :
        (call[t].op = "execute" /\ Returned(t)) =>
            /\ call[t].request_adds = 1
            /\ ops = 1 =>
                  /\ request_counter[result[t][1].success] = 1
                  /\ request_counter[~result[t][1].success] = 0

\* the part of it that holds: a failure of operation_end alone, which comes
\* before record_request(success=True), leaves one metric with the tag of
\* the envelope
OperationEndFailureOneMetric ==
    \A t \in Threads :
        (call[t].op = "execute" /\ Returned(t)
           /\ (call[t].payload # Nothing => ~SerializeRaises(call[t].payload[1]))) =>
            /\ call[t].request_adds = 1
            /\ ops = 1 =>
                  /\ request_counter[result[t][1].success] = 1
                  /\ request_counter[~result[t][1].success] = 0

\* ------------------------------------------------------------------------
\* The execute span and the envelope
\* ------------------------------------------------------------------------
\* the span the latest <agent>.execute scope of thread t opened
LastExecuteSpan(t) ==
    LET opened == { i \in 1..Len(spans[t]) : spans[t][i].name = ExecuteSpanName }
    IN spans[t][CHOOSE i \in opened : \A j \in opened : j <= i]

\* C28: the status of the <agent>.execute span agrees with the returned
\* envelope: it ends with status error whenever execute returns
\* success=false, and with status ok only when execute returns success=true.
C28_ExecuteSpanAgreesWithEnvelope ==
    \A t \in Threads :
        (call[t].op = "execute" /\ Returned(t)) =>
            /\ LastExecuteSpan(t).ended
            /\ Failed(t) => LastExecuteSpan(t).status = "error"
            /\ LastExecuteSpan(t).status = "ok" => Succeeded(t)

\* the part of it that holds: a successful envelope comes with an execute
\* span that ended with status ok
SucceededExecuteSpanOk ==
    \A t \in Threads :
        (call[t].op = "execute" /\ Returned(t) /\ Succeeded(t)) =>
            /\ LastExecuteSpan(t).ended
            /\ LastExecuteSpan(t).status = "ok"

\* ------------------------------------------------------------------------
\* The timer of the execute operation
\* ------------------------------------------------------------------------
\* C29: after execute returns, whether with a successful or a failed
\* envelope, the agent's logger holds no open timer for the operation name
\* execute, so a later execution never computes its duration from an
\* earlier execution's start.
C29_NoOpenTimerAfterExecute ==
    \A t \in Threads :
        (call[t].op = "execute" /\ Returned(t) /\ pc[t] = "idle") =>
            operation_starts[ExecuteTimer] = Nothing

\* the part of it that holds: a successful envelope leaves no open timer
\* behind
NoOpenTimerAfterSuccess ==
    \A t \in Threads :
        (call[t].op = "execute" /\ Returned(t) /\ pc[t] = "idle" /\ Succeeded(t)) =>
            operation_starts[ExecuteTimer] = Nothing

\* ------------------------------------------------------------------------
\* The gauge when a telemetry step fails
\* ------------------------------------------------------------------------
\* C30: the gauge increment made by trace_operation is always matched by a
\* decrement even when a telemetry step itself fails: if opening the span
\* fails after the increment, or recording the latency histogram fails
\* during cleanup, the gauge still returns to its value before the call
\* (0 when no scope is open).
C30_GaugeReleasedOnTelemetryFailure ==
    (\A t \in Threads : pc[t] = "idle" /\ ctx[t] = <<>>) => active_operations = 0

\* the part of it that holds: the gauge never goes below the number of
\* open scopes, so a telemetry failure leaks an increment and never a
\* decrement
GaugeCoversOpenScopes ==
    active_operations >= SumOver(Threads, [t \in Threads |-> Len(ctx[t])])

FullyConstructed(o) ==
    /\ o.initialized
    /\ o.tracer # 0
    /\ o.instruments # 0
    /\ o.propagator

\* C32: get_instance never returns an instance whose construction has not
\* completed: while an initialize call is still in progress in another
\* thread, or after an initialize call failed part-way through
\* construction, get_instance either fails with the not-initialized error
\* or returns a fully constructed instance.
C32_GetInstanceNeverPartial ==
    out.kind = "get_instance" =>
        \/ out.error = NotInitialized
        \/ /\ out.error = NoExc
           /\ out.instance # 0
           /\ FullyConstructed(telemetry.objects[out.instance])

\* the part of it that holds: before any initialize call has reached
\* __new__, get_instance fails with the not-initialized error
GetInstanceFailsBeforeNew ==
    (out.kind = "get_instance" /\ telemetry.objects = <<>>) =>
        out.error = NotInitialized

\* ------------------------------------------------------------------------
\* The status of a span
\* ------------------------------------------------------------------------
\* a span of an open scope has status unset, an ended span has status ok or
\* error
StatusSetWhenEnded ==
    \A t \in Threads : \A i \in 1..Len(spans[t]) :
        IF spans[t][i].ended THEN spans[t][i].status \in {"ok", "error"}
        ELSE spans[t][i].status = "unset"

\* the exit of a scope sets ok when nothing left the body and error when
\* something did, and an ended span is not touched again
StatusSetOnce ==
    \A t \in Threads :
        /\ Len(ctx'[t]) < Len(ctx[t]) =>
              spans'[t][CurrentSpan(t)].status = IF exc[t] = NoExc THEN "ok" ELSE "error"
        /\ \A i \in 1..Len(spans[t]) :
              (i <= Len(spans'[t]) /\ spans[t][i].ended /\ spans'[t][i].ended) =>
                  spans'[t][i] = spans[t][i]

\* C33: each span opened by trace_operation has its status changed from
\* unset exactly once, to ok on normal exit of the body or to error on an
\* escaping failure; it is never set to both and is never left unset when
\* the scope exits.
C33_SpanStatusSetOnce == []StatusSetWhenEnded /\ [][StatusSetOnce]_vars

\* ------------------------------------------------------------------------
\* operation_end removes the stored start
\* ------------------------------------------------------------------------
\* thread t takes the step of operation_end it is at
OperationEndStep(t, at) == pc[t] = at /\ pc'[t] # at

\* C34: operation_end(name) removes the stored start for name: after
\* operation_start(name) followed by operation_end(name) the logger holds
\* no timer for name, a further operation_end(name) logs a null duration,
\* and timers stored under other names are unchanged.
C34_OperationEndRemovesStart ==
    [][\A t \in Threads :
         LET name == call[t].timer IN
         /\ (OperationEndStep(t, "end_delete") /\ operation_starts[name] # Nothing) =>
               /\ operation_starts'[name] = Nothing
               /\ out'.kind = "log" =>
                     /\ out'.record.event = OperationEndEvent(name)
                     /\ out'.record.duration_ms # Nothing
         /\ (OperationEndStep(t, "end_check") /\ operation_starts[name] = Nothing) =>
               /\ operation_starts'[name] = Nothing
               /\ out'.kind = "log" =>
                     /\ out'.record.event = OperationEndEvent(name)
                     /\ out'.record.duration_ms = Nothing
         /\ (\E at \in {"end_check", "end_read", "end_delete"} : OperationEndStep(t, at)) =>
               \A other \in DOMAIN operation_starts \ {name} :
                   operation_starts'[other] = operation_starts[other]]_vars

\* a start was stored under two names and operation_end has just removed
\* one of them, logging its duration
C34_Witness ==
    \E t \in Threads :
        /\ call[t].op = "operation_end"
        /\ out.kind = "log" /\ out.by = t
        /\ out.record.event = OperationEndEvent(call[t].timer)
        /\ out.record.duration_ms # Nothing
        /\ operation_starts[call[t].timer] = Nothing
        /\ \E n \in TimerNames : n # call[t].timer /\ operation_starts[n] # Nothing

\* ------------------------------------------------------------------------
\* The fields the processors add to a record
\* ------------------------------------------------------------------------
\* the record emitted last came from an AgentLogger object
EmittedByLogger == out.kind = "log" /\ out.logger # 0

\* trace_id and span_id are those of the span current in the calling
\* thread, and absent when it has none
TraceFieldsFollowSpan ==
    EmittedByLogger =>
        IF CurrentSpan(out.by) # 0
        THEN /\ out.record.trace_id =
                   Some(FormatHex(CurrentSpanContext(out.by).trace_id, TraceIdHexLen))
             /\ out.record.span_id =
                   Some(FormatHex(CurrentSpanContext(out.by).span_id, SpanIdHexLen))
        ELSE /\ out.record.trace_id = Nothing
             /\ out.record.span_id = Nothing

\* C35: every record emitted through an AgentLogger carries the agent name
\* bound at that logger's construction (a caller-supplied agent field does
\* not replace it), and carries trace_id and span_id exactly when a
\* recording span is active at call time, equal to that span's identifiers;
\* both are omitted otherwise.
C35_RecordCarriesOwnAgent ==
    /\ EmittedByLogger => out.record.agent = loggers.names[out.logger]
    /\ TraceFieldsFollowSpan

\* the parts of it that hold: the agent field is always one a processor
\* set, never the caller's, and a logger that was used before the next one
\* was constructed keeps its own name
CallerAgentNeverKept ==
    EmittedByLogger => out.record.agent \in AgentNames

FirstLoggerAloneKeepsName ==
    (EmittedByLogger /\ Len(loggers.names) = 1) =>
        out.record.agent = loggers.names[out.logger]

\* ------------------------------------------------------------------------
\* The three series of the token counter
\* ------------------------------------------------------------------------
\* no record_llm_call is between its first and its last add
NoLlmCallInProgress == \A t \in Threads : llm_call[t] = NoLlmCall

\* total = input + output for every model
TotalIsInputPlusOutput ==
    \A m \in Models :
        token_counter[m]["total"] = token_counter[m]["input"] + token_counter[m]["output"]

\* a step of a call adds the amount of its type to the series of its model
\* and leaves every other series as it was
TokenStepAdds ==
    \A t \in Threads :
        \A type \in TokenTypes :
            (pc[t] = "llm_" \o type /\ pc'[t] # pc[t]) =>
                token_counter' =
                    [token_counter EXCEPT ![llm_call[t].model][type] =
                        @ + (CASE type = "total" ->
                                    llm_call[t].input_tokens + llm_call[t].output_tokens
                               [] type = "input" -> llm_call[t].input_tokens
                               [] type = "output" -> llm_call[t].output_tokens)]

\* C36: after any sequence of record_llm_call calls, for each model the
\* token counter's total-tagged sum equals its input-tagged sum plus its
\* output-tagged sum: each call adds input_tokens + output_tokens,
\* input_tokens and output_tokens to the three series respectively and
\* never resets any of them.
C36_TokenTotalsAddUp ==
    /\ [](NoLlmCallInProgress => TotalIsInputPlusOutput)
    /\ [][TokenStepAdds]_vars

\* two calls for the same model have completed, with different input and
\* output counts, and a third model-tagged series is untouched
C36_Witness ==
    /\ NoLlmCallInProgress
    /\ ops = 2
    /\ \E m \in Models :
          /\ token_counter[m]["input"] = 3
          /\ token_counter[m]["output"] = 1
          /\ token_counter[m]["total"] = 4
          /\ \A n \in Models \ {m} : token_counter[n] = NoTokens[n]

\* ------------------------------------------------------------------------
\* The nesting of the scopes of one execute call
\* ------------------------------------------------------------------------
\* the span on top of the stack of thread t, and the one below it
TopSpan(t) == spans[t][ctx[t][Len(ctx[t])]]

BelowTopSpan(t) == spans[t][ctx[t][Len(ctx[t]) - 1]]

\* where thread t is inside the <agent>.execute scope and outside the
\* validate_input scope
InExecuteScopeOnly == ExecuteBody \cup {"validate", "except", "execute_exit"}

\* the validate_input scope is open right inside the execute scope while
\* the validator's outcome is pending, and at every other position of
\* execute the execute scope is the active one and no validate_input scope
\* is open
ScopesNested ==
    \A t \in Threads :
        /\ pc[t] = "validate_exit" =>
              /\ Len(ctx[t]) >= 2
              /\ TopSpan(t).name = ValidateSpanName /\ ~TopSpan(t).ended
              /\ BelowTopSpan(t).name = ExecuteSpanName /\ ~BelowTopSpan(t).ended
        /\ pc[t] \in InExecuteScopeOnly =>
              /\ Len(ctx[t]) >= 1
              /\ TopSpan(t).name = ExecuteSpanName /\ ~TopSpan(t).ended
              /\ \A i \in 1..Len(spans[t]) :
                    spans[t][i].name = ValidateSpanName =>
                        spans[t][i].ended /\ pc[t] # "validate"

\* the core logic is called with the validate_input scope closed, and the
\* execute scope is closed by a return only after the envelope is built
\* and the request metered
ScopesClosedInOrder ==
    \A t \in Threads :
        /\ call'[t].core_calls = call[t].core_calls + 1 =>
              /\ TopSpan(t).name = ExecuteSpanName
              /\ \E i \in 1..Len(spans[t]) :
                    spans[t][i].name = ValidateSpanName /\ spans[t][i].ended
        /\ (pc[t] = "execute_exit" /\ pc'[t] # pc[t] /\ exc[t] = NoExc) =>
              /\ result[t] # Nothing
              /\ call[t].request_adds = 1
              /\ spans'[t][ctx[t][Len(ctx[t])]].ended
              /\ Len(ctx'[t]) = Len(ctx[t]) - 1

\* C37: within one execute call the scopes are properly nested: the
\* validate_input scope is opened after the <agent>.execute scope and
\* closed before the core logic starts, the core logic runs while the
\* <agent>.execute scope is the active one, and the <agent>.execute scope
\* is closed only after the outcome (success or failure) has been logged
\* and metered.
C37_ScopesProperlyNested == []ScopesNested /\ [][ScopesClosedInOrder]_vars

\* one thread is about to call the core logic, its validate_input scope
\* closed, while the other is inside its validate_input scope
C37_Witness ==
    \E t \in Threads, u \in Threads :
        /\ t # u
        /\ pc[t] = "core" /\ Len(ctx[t]) = 1 /\ Len(spans[t]) = 2
        /\ pc[u] = "validate_exit" /\ Len(ctx[u]) = 2

\* ------------------------------------------------------------------------
\* Termination of execute
\* ------------------------------------------------------------------------
\* thread t is inside a call of execute
ExecuteRunning(t) == call[t].op = "execute" /\ call[t].status = "running"

\* the call of thread t has returned its one AgentResult, the validator
\* called once and the core logic at most once
ExecuteDone(t) ==
    /\ call[t].op = "execute" /\ Returned(t)
    /\ result[t] # Nothing
    /\ call[t].validator_calls = 1
    /\ call[t].core_calls <= 1

\* no step of a call calls the validator or the core logic a second time or
\* replaces an envelope already built
NoRetry ==
    \A t \in Threads :
        /\ call'[t].validator_calls > call[t].validator_calls => call[t].validator_calls = 0
        /\ call'[t].core_calls > call[t].core_calls => call[t].core_calls = 0
        /\ (result[t] # Nothing /\ result'[t] # result[t]) => result'[t] = Nothing

\* C38: every call to execute whose validator and core-logic function
\* terminate itself terminates and produces exactly one AgentResult; the
\* wrapper adds no retry, loop or wait of its own between entry and the
\* result.
C38_ExecuteTerminatesOnce ==
    /\ \A t \in SequentialThreads : ExecuteRunning(t) ~> ExecuteDone(t)
    /\ [][NoRetry]_vars

\* a second call has returned its envelope after the first one did
C38_Witness ==
    \E t \in SequentialThreads :
        /\ ExecuteDone(t)
        /\ pc[t] = "idle"
        /\ ops = 2
        /\ Succeeded(t)

\* ------------------------------------------------------------------------
\* The data of a successful envelope
\* ------------------------------------------------------------------------
\* payload p exposes a field mapping: its __dict__, or what its model_dump
\* returns
ExposesFields(p) == p.has_dict \/ p.model_dump = "returns"

\* C39: on success, the data of the result envelope equals the payload's
\* own field mapping when the payload exposes one, and otherwise is a
\* mapping with the single key value holding the payload.
C39_DataIsPayloadMapping ==
    \A t \in Threads :
        (call[t].op = "execute" /\ Returned(t) /\ Succeeded(t)) =>
            LET p == call[t].payload[1]
                data == result[t][1].data[1]
            IN  /\ call[t].payload # Nothing /\ result[t][1].data # Nothing
                /\ data.of = p.id
                /\ data.keys = IF ExposesFields(p) THEN p.fields ELSE {"value"}

\* a call that returned an object with fields has succeeded, after one that
\* returned a plain value
C39_Witness ==
    \E t \in Threads :
        /\ call[t].op = "execute" /\ Returned(t) /\ Succeeded(t)
        /\ ops = 2
        /\ call[t].payload[1].has_dict
        /\ result[t][1].data[1].keys = call[t].payload[1].fields

\* so has a call whose result was serialized by model_dump
DumpedPayloadSucceeded ==
    \E t \in Threads :
        /\ call[t].op = "execute" /\ Returned(t) /\ Succeeded(t)
        /\ call[t].payload[1] = DumpablePayload

\* ------------------------------------------------------------------------
\* What the wrapper leaves alone
\* ------------------------------------------------------------------------
\* thread t goes on with the call it was making, or prepares the output
\* message of the call it made
SameCall(t) == call[t].op \in {"execute", "consume"} /\ ops' = ops

\* the message body, the inbound headers and, once it exists, the context
\* of a call are the same after every step of the call and after
\* prepare_output_message; the context consume_and_process creates holds
\* the message's ids and the inbound headers; and the outbound headers hold
\* nothing but what prepare_headers put into its own new map
FrameKept ==
    \A t \in Threads :
        /\ SameCall(t) =>
              /\ call'[t].input_data = call[t].input_data
              /\ call'[t].headers = call[t].headers
              /\ (pc[t] # "consume_body" \/ pc'[t] = pc[t]) =>
                    call'[t].context = call[t].context
        /\ (SameCall(t) /\ pc[t] = "consume_body" /\ pc'[t] # pc[t]) =>
              /\ call'[t].context.application_id =
                    Get(call[t].input_data.application_id, "unknown")
              /\ call'[t].context.trace_headers =
                    IF call[t].headers # Nothing /\ CarrierTruthy(call[t].headers[1])
                    THEN call[t].headers[1] ELSE EmptyCarrier
        /\ (out'.kind = "prepare" /\ out'.by = t /\ out' # out) =>
              /\ call'[t] = call[t]
              /\ result'[t] = result[t]
              /\ out'.headers.other = Nothing
              /\ out'.value[1].application_id = call[t].context.application_id
              /\ out'.value[1].request_id = call[t].context.request_id

\* C40: execute, consume_and_process and prepare_output_message leave the
\* AgentContext they are given unchanged (application id, request id,
\* inbound trace headers, metadata), and they do not modify the inbound
\* message body or the inbound headers map; outbound metadata is always
\* built in a new map.
C40_InputsLeftUnchanged == [][FrameKept]_vars

\* the output message of a consumed message was prepared: the inbound
\* headers, which held an entry of their own, and the context are as they
\* were received and built
C40_Witness ==
    \E t \in Threads :
        /\ out.kind = "prepare" /\ out.by = t
        /\ call[t].op = "consume"
        /\ call[t].headers = Some([EmptyCarrier EXCEPT !.other = Some("v")])
        /\ call[t].context.trace_headers = call[t].headers[1]
        /\ call[t].context.application_id = "A1"
        /\ out.headers.other = Nothing

====
